---- MODULE Spec2Model ----
(***************************************************************************)
(* takumi-helpers: fromJsx, the compiler from a React-like element tree    *)
(* to the Container / Text / Image node tree (src/takumi-helpers/src/jsx). *)
(*                                                                         *)
(* The module has three layers.                                            *)
(*   1. The synchronous helpers of utils.ts, helpers.ts and jsx.ts as      *)
(*      operators.                                                         *)
(*   2. The promise machinery the async functions of jsx.ts run on:        *)
(*      a table of promises, the suspended activations of the async        *)
(*      functions, and the FIFO microtask queue.                           *)
(*   3. One action per continuation of jsx.ts (the code after each await   *)
(*      and each .then / .finally callback), one for the call of fromJsx   *)
(*      and one for the caller's deferred values settling.                 *)
(*                                                                         *)
(* A JavaScript property whose value is undefined is modelled as a field   *)
(* that is absent from the record.                                         *)
(***************************************************************************)
EXTENDS Integers, Sequences, FiniteSets, TLC

(***************************************************************************)
(* Bounds of the model.                                                    *)
(***************************************************************************)
\* children of the fan-out under test: 0 .. cap + MaxOverCap
MaxOverCap == 1

(***************************************************************************)
(* Input values: the ReactNode | ReactElementLike union of jsx.ts:53.      *)
(***************************************************************************)
Null == [k |-> "null"]
Undefined == [k |-> "undefined"]
False == [k |-> "false"]
Str(s) == [k |-> "string", s |-> s]
Num(n) == [k |-> "number", n |-> n]
\* an array or any other object with Symbol.iterator
Iterable(items) == [k |-> "iterable", items |-> items]
\* a Promise supplied by the caller: promise number id of the promise table
Deferred(id) == [k |-> "promise", id |-> id]
Element(type, props) == [k |-> "element", type |-> type, props |-> props]

\* element.type
Tag(tag) == [t |-> "string", tag |-> tag]
FunctionReturning(e) == [t |-> "function", body |-> "return", e |-> e]
FunctionReturningChildren == [t |-> "function", body |-> "children"]
FunctionThrowing(msg) == [t |-> "function", body |-> "throw", message |-> msg]
ForwardRef(render) == [t |-> "object", typeof |-> "react.forward_ref", render |-> render]
Memo(inner) == [t |-> "object", typeof |-> "react.memo", type |-> inner]

Host(tag, props) == Element(Tag(tag), props)
NoProps == <<>>
Children(c) == [children |-> c]

Error(message) == [k |-> "error", message |-> message]

(***************************************************************************)
(* utils.ts                                                                *)
(***************************************************************************)
\* a set without script
voidElementsNoScript == {"head", "meta", "link", "style"}

voidElements == {"head", "meta", "link", "style", "script"}

REACT_FORWARD_REF_TYPE == "react.forward_ref"
REACT_MEMO_TYPE == "react.memo"
REACT_FRAGMENT_TYPE == [t |-> "symbol", sym |-> "react.fragment"]

Fragment(props) == Element(REACT_FRAGMENT_TYPE, props)

isHtmlVoidElement(element) ==
    /\ element.type.t = "string"
    /\ element.type.tag \in voidElements

isHtmlElement(element, type) ==
    /\ element.type.t = "string"
    /\ element.type.tag = type

isValidElement(object) == object.k = "element"

isFunctionComponent(value) == value.t = "function"

isReactForwardRef(type) ==
    /\ "typeof" \in DOMAIN type
    /\ type.typeof = REACT_FORWARD_REF_TYPE

\* a test that knows no memo
isReactMemoNever(type) == FALSE

isReactMemo(type) ==
    /\ "typeof" \in DOMAIN type
    /\ type.typeof = REACT_MEMO_TYPE

\* a test that knows no fragment
isReactFragmentNever(element) == FALSE

isReactFragment(element) == element.type = REACT_FRAGMENT_TYPE

(***************************************************************************)
(* String(x) of a non-negative integer.                                    *)
(***************************************************************************)
Digit(d) ==
    CASE d = 0 -> "0" [] d = 1 -> "1" [] d = 2 -> "2" [] d = 3 -> "3"
      [] d = 4 -> "4" [] d = 5 -> "5" [] d = 6 -> "6" [] d = 7 -> "7"
      [] d = 8 -> "8" [] d = 9 -> "9"

RECURSIVE NumberToString(_)
NumberToString(n) ==
    IF n < 10 THEN Digit(n) ELSE NumberToString(n \div 10) \o Digit(n % 10)

\* String(element) of jsx.ts:99 for the values that reach it
String(element) ==
    IF element.k = "number" THEN NumberToString(element.n) ELSE element.s

(***************************************************************************)
(* helpers.ts: the node builders.                                          *)
(***************************************************************************)
\* an optional field of a record
Field(name, present, value) == IF present THEN name :> value ELSE <<>>

Has(props, name) == name \in DOMAIN props

percentage(p) == NumberToString(p) \o "%"

applyStyle(props) ==
    Field("style", Has(props, "style") /\ DOMAIN props.style # {}, props.style)

\* a preset attached whenever one is given
applyPresetAlways(props) == Field("preset", Has(props, "preset"), props.preset)

applyPreset(props) ==
    Field("preset", Has(props, "preset") /\ DOMAIN props.preset # {}, props.preset)

TwField(props) == Field("tw", Has(props, "tw") /\ props.tw # "", props.tw)

container(props) ==
    [type |-> "container"]
        @@ Field("children", Has(props, "children"), props.children)
        @@ TwField(props) @@ applyPreset(props) @@ applyStyle(props)

text(props) ==
    [type |-> "text", text |-> props.text]
        @@ TwField(props) @@ applyPreset(props) @@ applyStyle(props)

image(props) ==
    [type |-> "image"]
        @@ Field("src", Has(props, "src"), props.src)
        @@ Field("width", Has(props, "width"), props.width)
        @@ Field("height", Has(props, "height"), props.height)
        @@ TwField(props) @@ applyPreset(props) @@ applyStyle(props)

(***************************************************************************)
(* style-presets: the entries of the default table the model uses.         *)
(***************************************************************************)
defaultStylePresets ==
    [p |-> [marginTop |-> "1em", marginBottom |-> "1em", display |-> "block"],
     h1 |-> [fontSize |-> "2em", marginTop |-> "0.67em",
             marginBottom |-> "0.67em", marginLeft |-> "0", marginRight |-> "0",
             fontWeight |-> "bold", display |-> "block"],
     strong |-> [fontWeight |-> "bold", display |-> "inline"],
     em |-> [fontStyle |-> "italic", display |-> "inline"],
     span |-> [display |-> "inline"],
     img |-> [display |-> "inline"],
     svg |-> [display |-> "inline"]]

(***************************************************************************)
(* jsx.ts: options.                                                        *)
(***************************************************************************)
\* FromJsxOptions: defaultStyles absent, a table, or false
NoOptions == <<>>

\* a preset table given as defaultStyles
Table(presets) == [k |-> "object", table |-> presets]

\* the caller's table laid over the default one
getPresetsMerged(options) ==
    IF Has(options, "defaultStyles") /\ options.defaultStyles.k = "false"
    THEN <<>>
    ELSE "presets" :> (IF Has(options, "defaultStyles")
                       THEN options.defaultStyles.table @@ defaultStylePresets
                       ELSE defaultStylePresets)

getPresets(options) ==
    IF Has(options, "defaultStyles") /\ options.defaultStyles.k = "false"
    THEN <<>>
    ELSE "presets" :> (IF Has(options, "defaultStyles")
                       THEN options.defaultStyles.table
                       ELSE defaultStylePresets)

ResolveOptions(options) ==
    getPresets(options)
        @@ [tailwindClassesProperty |->
              IF Has(options, "tailwindClassesProperty")
              THEN options.tailwindClassesProperty ELSE "tw"]

\* options.presets?.span
SpanPreset(options) ==
    Field("preset", Has(options, "presets") /\ Has(options.presets, "span"),
          options.presets.span)

(***************************************************************************)
(* jsx.ts: extractStyle, extractTw.                                        *)
(***************************************************************************)
\* the inline style completed with the keys of the preset
extractStyleMerged(element, options) ==
    LET preset ==
            IF /\ Has(options, "presets")
               /\ element.type.t = "string"
               /\ element.type.tag \in DOMAIN options.presets
            THEN options.presets[element.type.tag] ELSE <<>>
    IN Field("preset", DOMAIN preset # {}, preset)
       @@ Field("style",
                /\ Has(element.props, "style")
                /\ DOMAIN element.props.style # {},
                element.props.style @@ preset)

extractStyle(element, options) ==
    Field("preset",
          /\ Has(options, "presets")
          /\ element.type.t = "string"
          /\ element.type.tag \in DOMAIN options.presets,
          options.presets[element.type.tag])
    @@ Field("style",
             /\ Has(element.props, "style")
             /\ DOMAIN element.props.style # {},
             element.props.style)

\* the prop named tw, whatever name is configured
extractTwNamedTw(element, options) ==
    Field("tw",
          /\ Has(element.props, "tw")
          /\ element.props.tw.k = "string",
          element.props.tw.s)

extractTw(element, options) ==
    Field("tw",
          /\ Has(element.props, options.tailwindClassesProperty)
          /\ element.props[options.tailwindClassesProperty].k = "string",
          element.props[options.tailwindClassesProperty].s)

(***************************************************************************)
(* jsx.ts: text collapsing.  The result is [text |-> s], or the empty      *)
(* record for undefined.                                                   *)
(***************************************************************************)
\* lines 181-196: what one child adds to output, or the empty record when
\* the child ends the loop with return
TextOfChildNested(child) ==
    LET RECURSIVE all(_, _)
        all(items, i) ==
            IF i > Len(items) THEN ""
            ELSE (IF items[i].k = "string" THEN items[i].s
                  ELSE String(items[i])) \o all(items, i + 1)
    IN IF isValidElement(child) THEN <<>>
       ELSE IF child.k = "string" THEN [text |-> child.s]
       ELSE IF child.k = "number" THEN [text |-> String(child)]
       ELSE IF child.k = "iterable"
               /\ \A i \in 1..Len(child.items) :
                      child.items[i].k \in {"string", "number"}
            THEN [text |-> all(child.items, 1)]
       ELSE <<>>

TextOfChild(child) ==
    IF isValidElement(child) THEN <<>>
    ELSE IF child.k = "string" THEN [text |-> child.s]
    ELSE IF child.k = "number" THEN [text |-> String(child)]
    ELSE <<>>

RECURSIVE collectTextLoop(_, _, _)
\* the for loop of collectTextFromIterable, from position i with output
collectTextLoop(children, i, output) ==
    IF i > Len(children) THEN [text |-> output]
    ELSE IF TextOfChild(children[i]) = <<>> THEN <<>>
    ELSE collectTextLoop(children, i + 1,
                         output \o TextOfChild(children[i]).text)

\* a loop that starts at the second child
collectTextFromIterableTail(children) == collectTextLoop(children, 2, "")

collectTextFromIterable(children) == collectTextLoop(children, 1, "")

RECURSIVE tryCollectTextChildren(_)
tryCollectTextChildren(element) ==
    IF ~isValidElement(element) THEN <<>>
    ELSE IF ~Has(element.props, "children") THEN <<>>
    ELSE LET children == element.props.children IN
         IF children.k = "string" THEN [text |-> children.s]
         ELSE IF children.k = "number" THEN [text |-> String(children)]
         ELSE IF children.k = "iterable"
              THEN collectTextFromIterable(children.items)
         ELSE IF isValidElement(children) /\ isReactFragment(children)
              THEN tryCollectTextChildren(children)
         ELSE <<>>

(***************************************************************************)
(* Promises.  M is the machine: the promise table, the suspended           *)
(* activations (frames), the microtask queue, and the log of the errors    *)
(* raised so far in the order they were raised.                            *)
(*                                                                         *)
(* A promise and an activation are named by the place of the call that     *)
(* made them in the tree of calls: path is the sequence of steps from the  *)
(* call of fromJsx ("root", then "iterable" and the child's index,         *)
(* "element", "result", "children", "value").                              *)
(***************************************************************************)
PendingPromise == [state |-> "pending", value |-> Undefined, reactions |-> <<>>]

SettledPromise(state, value) ==
    [state |-> state, value |-> value, reactions |-> <<>>]

NewPromise(M, name, promise) ==
    [M EXCEPT !.promises = (name :> promise) @@ @]

NewFrame(M, path, frame) == [M EXCEPT !.frames = (path :> frame) @@ @]

ReactionJob(handler, state, value) ==
    [job |-> "reaction", handler |-> handler, state |-> state, value |-> value]

\* resolve or reject of a promise with a value that is not a promise;
\* a settled promise ignores it
SettlePromise(M, p, state, value) ==
    IF M.promises[p].state # "pending" THEN M
    ELSE LET reactions == M.promises[p].reactions IN
         [M EXCEPT
            !.promises[p] = [@ EXCEPT !.state = state, !.value = value,
                                      !.reactions = <<>>],
            !.microtasks = @ \o [i \in 1..Len(reactions) |->
                                   ReactionJob(reactions[i], state, value)]]

\* promise.then(...) and await promise, with the handler as the reaction
PerformPromiseThen(M, p, handler) ==
    [M EXCEPT
       !.promises[p].reactions =
          IF M.promises[p].state = "pending" THEN Append(@, handler) ELSE @,
       !.microtasks =
          IF M.promises[p].state = "pending" THEN @
          ELSE Append(@, ReactionJob(handler, M.promises[p].state,
                                     M.promises[p].value))]

\* PerformPromiseThen(p, handler) for each p of the sequence ps of distinct
\* promises, in that order: a pending one gets the reaction, a settled one
\* gets its job queued
ThenEach(M, ps, handler) ==
    LET isPending(p) == M.promises[p].state = "pending"
        ready == SelectSeq(ps, LAMBDA p : ~isPending(p))
    IN [M EXCEPT
          !.promises = [name \in DOMAIN @ |->
                          IF (\E i \in 1..Len(ps) : ps[i] = name) /\ isPending(name)
                          THEN [@[name] EXCEPT !.reactions = Append(@, handler)]
                          ELSE @[name]],
          !.microtasks = @ \o [i \in 1..Len(ready) |->
                                 ReactionJob(handler, M.promises[ready[i]].state,
                                             M.promises[ready[i]].value)]]

\* resolve of promise p with the promise q: NewPromiseResolveThenableJob
ResolveWithPromise(M, p, q) ==
    [M EXCEPT !.microtasks =
        Append(@, [job |-> "resolveThenable", promise |-> p, thenable |-> q])]

\* the handler that settles promise p as the promise it reacts to settled
ResolveFunctions(p) == [h |-> "resolveFunctions", promise |-> p]

\* a promise that none of ps settles
PromiseRaceOfNone(M, name, ps) == NewPromise(M, name, PendingPromise)

\* Promise.race(ps)
PromiseRace(M, name, ps) ==
    ThenEach(NewPromise(M, name, PendingPromise), ps, ResolveFunctions(name))

\* a promise that waits for none of ps
PromiseAllOfNone(M, name, ps) ==
    NewPromise(M, name, SettledPromise("fulfilled", Undefined))

\* Promise.all(ps), whose value the code does not use
PromiseAll(M, name, ps) ==
    IF ps = <<>>
    THEN NewPromise(M, name, SettledPromise("fulfilled", Undefined))
    ELSE ThenEach(NewPromise(M, name, PendingPromise @@ [remaining |-> Len(ps)]),
                  ps, [h |-> "allElement", promise |-> name])

(***************************************************************************)
(* Async functions.  The call at path leaves the machine it is given with  *)
(* its promise PromiseOf(path) added.                                      *)
(***************************************************************************)
PromiseOf(path) == Append(path, "promise")

\* a return that settles the promise in a later job
ReturnByJob(M, path, value) ==
    [M EXCEPT
       !.promises = (PromiseOf(path) :> PendingPromise) @@ @,
       !.microtasks = Append(@, ReactionJob(ResolveFunctions(PromiseOf(path)),
                                            "fulfilled", value))]

\* return value, before the first await
Return(M, path, value) ==
    NewPromise(M, PromiseOf(path), SettledPromise("fulfilled", value))

\* return q for a promise q, before the first await: the function's promise
\* is resolved with q
ReturnPromise(M, path, q) ==
    [M EXCEPT
       !.promises = (PromiseOf(path) :> PendingPromise) @@ @,
       !.microtasks = Append(@, [job |-> "resolveThenable",
                                 promise |-> PromiseOf(path), thenable |-> q])]

\* throw error, before the first await; the error is new
Throw(M, path, error) ==
    [M EXCEPT
       !.promises = (PromiseOf(path) :> SettledPromise("rejected", error)) @@ @,
       !.errlog = Append(@, error)]

\* await awaited: the activation is suspended on it, PerformPromiseThen with
\* the resumption as the reaction
Await(M, path, awaited, frame) ==
    [M EXCEPT
       !.promises =
          (PromiseOf(path) :> PendingPromise)
          @@ [@ EXCEPT ![awaited].reactions =
                 IF M.promises[awaited].state = "pending"
                 THEN Append(@, [h |-> "await", frame |-> path]) ELSE @],
       !.frames = (path :> (frame @@ [promise |-> PromiseOf(path)])) @@ @,
       !.microtasks =
          IF M.promises[awaited].state = "pending" THEN @
          ELSE Append(@, ReactionJob([h |-> "await", frame |-> path],
                                     M.promises[awaited].state,
                                     M.promises[awaited].value))]

(***************************************************************************)
(* jsx.ts: the synchronous part of each function, up to its first await.   *)
(***************************************************************************)
MAX_CONCURRENT_ITERABLE_RESOLUTION == 8

\* a call that passes no props
InvokeWithoutProps(f, props) ==
    CASE f.body = "return" -> [threw |-> FALSE, value |-> f.e]
      [] f.body = "children" -> [threw |-> FALSE, value |-> Undefined]
      [] f.body = "throw" -> [threw |-> TRUE, error |-> Error(f.message)]

\* the call f(props) of a function component or of a forward-ref's render:
\* what it returns, or the error it throws
Invoke(f, props) ==
    CASE f.body = "return" -> [threw |-> FALSE, value |-> f.e]
      [] f.body = "children" ->
            [threw |-> FALSE,
             value |-> IF Has(props, "children") THEN props.children
                       ELSE Undefined]
      [] f.body = "throw" -> [threw |-> TRUE, error |-> Error(f.message)]

\* history: the call made by the activation at path is recorded
Called(M, path) == [M EXCEPT !.invoked = Append(@, path)]

\* width and height, which the model's inputs give as numbers
SizeFields(element) ==
    Field("width", Has(element.props, "width"), element.props.width)
        @@ Field("height", Has(element.props, "height"), element.props.height)

\* what the markup serializer returns for an svg element
serializeSvg(element) == "<svg xmlns=\"http://www.w3.org/2000/svg\"></svg>"

MissingSrc == Error("Image element must have a 'src' prop.")

\* a test of presence alone
NoSrcAbsent(element) == ~Has(element.props, "src")

\* !element.props.src
NoSrc(element) == ~Has(element.props, "src") \/ element.props.src = ""

createImageElement(element, options) ==
    image([src |-> element.props.src] @@ SizeFields(element)
            @@ extractStyle(element, options) @@ extractTw(element, options))

createSvgElement(element, options) ==
    image([src |-> serializeSvg(element)] @@ SizeFields(element)
            @@ extractStyle(element, options) @@ extractTw(element, options))

RECURSIVE fromJsxInternal(_, _, _, _)
RECURSIVE processReactElement(_, _, _, _)
RECURSIVE tryHandleComponentWrapper(_, _, _, _)
RECURSIVE collectIterableLoop(_, _)

\* a test that lets one more in
AtCapExceeded(size) == size > MAX_CONCURRENT_ITERABLE_RESOLUTION

\* line 400: inFlight.size >= MAX_CONCURRENT_ITERABLE_RESOLUTION
AtCap(size) == size >= MAX_CONCURRENT_ITERABLE_RESOLUTION

\* the tasks in the inFlight sets of all the fan-outs together
inFlightSizeGlobal(M, f) ==
    LET fans == {g \in DOMAIN M.frames : M.frames[g].fn = "collectIterable"}
        RECURSIVE sum(_)
        sum(S) == IF S = {} THEN 0
                  ELSE LET g == CHOOSE h \in S : TRUE
                       IN Len(M.frames[g].inFlight) + sum(S \ {g})
    IN sum(fans)

\* line 400: inFlight.size, of the set of the activation f
inFlightSize(M, f) == Len(M.frames[f].inFlight)

\* lines 392-402 for the child resolution call with index currentIndex,
\* which left the machine M: the task, inFlight.add, and the await of
\* Promise.race when the cap is reached.  sizes and pulled are history:
\* inFlight.size before each add, and the elements the loop pulled with the
\* index each got
Admit(M, f, currentIndex) ==
    LET child == Append(f, NumberToString(currentIndex))
        then == Append(child, "then")
        task == Append(child, "task")
        race == Append(f, "race" \o NumberToString(currentIndex))
        M1 == PerformPromiseThen(
                 [M EXCEPT
                    !.promises = (then :> PendingPromise)
                                 @@ (task :> PendingPromise) @@ @,
                    !.frames[f].sizes = Append(@, Len(M.frames[f].inFlight)),
                    !.frames[f].inFlight = Append(@, task)],
                 PromiseOf(child),
                 [h |-> "then", frame |-> f, currentIndex |-> currentIndex,
                  derived |-> then])
        M2 == PerformPromiseThen(M1, then,
                 [h |-> "finally", frame |-> f, task |-> task])
    IN IF AtCap(inFlightSize(M2, f))
       THEN PerformPromiseThen(
               PromiseRace([M2 EXCEPT !.frames[f].line = 401], race,
                           M2.frames[f].inFlight),
               race, [h |-> "await", frame |-> f])
       ELSE M2

\* an iterator that goes from the last member to the first
IteratorFromEnd(F) == F.iterable[Len(F.iterable) - F.next + 1]

\* the member of the sequence the iterator of the activation F gives next
IteratorNext(F) == F.iterable[F.next]

\* the for loop of collectIterable in activation f (line 388), from the
\* iterator's position up to the await of line 401 or of line 405
collectIterableLoop(M, f) ==
    LET F == M.frames[f] IN
    IF F.next > Len(F.iterable)
    THEN PerformPromiseThen(
            PromiseAll([M EXCEPT !.frames[f].line = 405], Append(f, "all"),
                       F.inFlight),
            Append(f, "all"), [h |-> "await", frame |-> f])
    ELSE LET admitted ==
                Admit(fromJsxInternal(
                         [M EXCEPT !.frames[f].next = @ + 1,
                                   !.frames[f].index = @ + 1,
                                   !.frames[f].pulled =
                                      Append(@, [index |-> F.index,
                                                 element |-> IteratorNext(F)])],
                         Append(f, NumberToString(F.index)),
                         IteratorNext(F), F.options),
                      f, F.index)
         IN IF admitted.frames[f].line = 401 THEN admitted
            ELSE collectIterableLoop(admitted, f)

collectIterable(M, path, iterable, options) ==
    collectIterableLoop(
       [M EXCEPT
          !.promises = (PromiseOf(path) :> PendingPromise) @@ @,
          !.frames = (path :>
             [fn |-> "collectIterable", line |-> 388, options |-> options,
              promise |-> PromiseOf(path), iterable |-> iterable,
              next |-> 1, index |-> 0, groupedResults |-> <<>>,
              inFlight |-> <<>>, sizes |-> <<>>, pulled |-> <<>>]) @@ @],
       path)

\* children resolved once for nothing and once more for the result
collectChildrenTwice(M, path, element, options) ==
    IF ~Has(element.props, "children") THEN Return(M, path, <<>>)
    ELSE fromJsxInternal(
            fromJsxInternal(M, Append(path, "first"), element.props.children,
                            options),
            path, element.props.children, options)

collectChildren(M, path, element, options) ==
    IF ~Has(element.props, "children") THEN Return(M, path, <<>>)
    ELSE fromJsxInternal(M, path, element.props.children, options)

\* the checks of lines 82-102 in the order of the code
fromJsxInternal(M, path, element, options) ==
    CASE element.k \in {"undefined", "null", "false"} -> Return(M, path, <<>>)
      [] element.k = "promise" ->
            Await(M, path, <<"deferred", NumberToString(element.id)>>,
                  [fn |-> "fromJsxInternal", line |-> 86, options |-> options])
      [] element.k = "iterable" ->
            ReturnPromise(
               collectIterable(M, Append(path, "iterable"), element.items,
                               options),
               path, PromiseOf(Append(path, "iterable")))
      [] isValidElement(element) ->
            Await(processReactElement(M, Append(path, "element"), element,
                                      options),
                  path, PromiseOf(Append(path, "element")),
                  [fn |-> "fromJsxInternal", line |-> 93])
      [] element.k \in {"string", "number"} ->
            Return(M, path,
                   <<text([text |-> String(element)] @@ SpanPreset(options))>>)

\* the result is [kind |-> "undefined"], [kind |-> "throw", m |-> the machine
\* the call left, error |-> e] for an error thrown by the wrapped function,
\* or [kind |-> "promise", m |-> the machine the call left, p |-> the
\* promise it returned]
tryHandleComponentWrapper(M, path, element, options) ==
    CASE element.type.t # "object" -> [kind |-> "undefined"]
      [] isReactForwardRef(element.type) /\ Has(element.type, "render") ->
            LET r == Invoke(element.type.render, element.props) IN
            IF r.threw
            THEN [kind |-> "throw", m |-> Called(M, path), error |-> r.error]
            ELSE [kind |-> "promise",
                  m |-> fromJsxInternal(Called(M, path), Append(path, "result"),
                                        r.value, options),
                  p |-> PromiseOf(Append(path, "result"))]
      [] isReactMemo(element.type) /\ Has(element.type, "type") ->
            LET innerType == element.type.type IN
            IF isFunctionComponent(innerType)
            THEN LET r == Invoke(innerType, element.props) IN
                 IF r.threw
                 THEN [kind |-> "throw", m |-> Called(M, path),
                       error |-> r.error]
                 ELSE [kind |-> "promise",
                       m |-> fromJsxInternal(Called(M, path),
                                             Append(path, "result"),
                                             r.value, options),
                       p |-> PromiseOf(Append(path, "result"))]
            ELSE [kind |-> "promise",
                  m |-> processReactElement(M, Append(path, "cloned"),
                           [element EXCEPT !.type = innerType], options),
                  p |-> PromiseOf(Append(path, "cloned"))]
      [] OTHER -> [kind |-> "undefined"]

\* the checks of lines 204-256 in the order of the code; at most one of the
\* guards holds of an element
processReactElement(M, path, element, options) ==
    LET wrapperResult ==
            IF isFunctionComponent(element.type) THEN [kind |-> "undefined"]
            ELSE tryHandleComponentWrapper(M, path, element, options)
    IN
    CASE isFunctionComponent(element.type) ->
            LET r == Invoke(element.type, element.props) IN
            IF r.threw THEN Throw(Called(M, path), path, r.error)
            ELSE ReturnPromise(
                    fromJsxInternal(Called(M, path), Append(path, "result"),
                                    r.value, options),
                    path, PromiseOf(Append(path, "result")))
      [] wrapperResult.kind = "throw" ->
            Throw(wrapperResult.m, path, wrapperResult.error)
      [] wrapperResult.kind = "promise" ->
            ReturnPromise(wrapperResult.m, path, wrapperResult.p)
      [] isReactFragment(element) ->
            Await(collectChildren(M, Append(path, "children"), element,
                                  options),
                  path, PromiseOf(Append(path, "children")),
                  [fn |-> "processReactElement", line |-> 213])
      [] isHtmlVoidElement(element) -> Return(M, path, <<>>)
      [] isHtmlElement(element, "br") ->
            Return(M, path, <<text([text |-> "\n"] @@ SpanPreset(options))>>)
      [] isHtmlElement(element, "img") ->
            IF NoSrc(element) THEN Throw(M, path, MissingSrc)
            ELSE Return(M, path, <<createImageElement(element, options)>>)
      [] isHtmlElement(element, "svg") ->
            Return(M, path, <<createSvgElement(element, options)>>)
      [] OTHER ->
            IF tryCollectTextChildren(element) # <<>>
            THEN Return(M, path,
                    <<text(tryCollectTextChildren(element)
                           @@ extractStyle(element, options)
                           @@ extractTw(element, options))>>)
            ELSE Await(collectChildren(M, Append(path, "children"), element,
                                       options),
                       path, PromiseOf(Append(path, "children")),
                       [fn |-> "processReactElement", line |-> 247,
                        fields |-> extractStyle(element, options)
                                     @@ extractTw(element, options)])

\* one activation for every call
fromJsxShared(M, call, element, options) ==
    Await(fromJsxInternal(M, <<"root">>, element, ResolveOptions(options)),
          <<>>, PromiseOf(<<"root">>), [fn |-> "fromJsx", line |-> 56])

\* the call of fromJsx named call, up to the await of line 56
fromJsxOf(M, call, element, options) ==
    Await(fromJsxInternal(M, Append(call, "root"), element,
                          ResolveOptions(options)),
          call, PromiseOf(Append(call, "root")),
          [fn |-> "fromJsx", line |-> 56])

\* fromJsx up to the await of line 56
fromJsx(M, element, options) == fromJsxOf(M, <<>>, element, options)

(***************************************************************************)
(* State.                                                                  *)
(***************************************************************************)
VARIABLES
    action,         \* the step taken last
    input,          \* the element fromJsx is called with
    options,        \* the FromJsxOptions it is called with
    deferredValues, \* deferredValues[d]: what the caller's promise d fulfils with
    rejectable,     \* the caller's promises that may reject
    promises,       \* the promise table
    frames,         \* the activations of the async functions of jsx.ts
    microtasks,     \* the microtask queue, head first
    errlog,         \* the errors raised so far, oldest first
    invoked,        \* the calls of components made so far, oldest first
    called,         \* fromJsx has been called
    settled,        \* a caller's promise settled since the queue was last empty
    outOfOrder,     \* a caller's promise fulfilled before one of lower number
    calledAgain,    \* fromJsx has been called a second time with the same input
    tick,           \* flips at every step
    backend,        \* the program that serves the requests
    renderer,       \* the module-level renderer and the fonts loaded into it
    fontLoadMarker, \* the module-level set of marked fonts
    requests,       \* the requests made so far and how far each has got
    toWorker,       \* messages posted by the page, oldest first
    toPage,         \* messages posted by the worker, oldest first
    page            \* the playground page

env == <<input, options, deferredValues, rejectable>>

\* the state of the programs around fromJsx
apps == <<backend, renderer, fontLoadMarker, requests, toWorker, toPage, page>>

\* the state of a compile
jsx == <<input, options, deferredValues, rejectable, promises, frames,
         microtasks, errlog, invoked, called, settled, outOfOrder, calledAgain>>

vars == <<action, input, options, deferredValues, rejectable, promises, frames,
          microtasks, errlog, invoked, called, settled, outOfOrder,
          calledAgain, tick, backend, renderer, fontLoadMarker, requests,
          toWorker, toPage, page>>

\* the step named step, of the caller's promise d or of none
Step(step, d) == [step |-> step, d |-> d]

\* a step of a compile: the programs around it stand still
Turn(step) ==
    /\ action' = step
    /\ tick' = ~tick
    /\ UNCHANGED apps

Machine ==
    [promises |-> promises, frames |-> frames, microtasks |-> microtasks,
     errlog |-> errlog, invoked |-> invoked]

Install(M) ==
    /\ promises' = M.promises
    /\ frames' = M.frames
    /\ microtasks' = M.microtasks
    /\ errlog' = M.errlog
    /\ invoked' = M.invoked

\* a microtask has run and left the machine M
Ran(M) ==
    /\ Install(M)
    /\ settled' = (settled /\ M.microtasks # <<>>)
    /\ Turn(Step("run", 0))
    /\ UNCHANGED <<env, called, outOfOrder, calledAgain>>

\* the machine once the job at the head of the queue has been taken
Dequeued == [Machine EXCEPT !.microtasks = Tail(@)]

DeferredPromise(d) == <<"deferred", NumberToString(d)>>

RejectionOf(d) == Error("deferred " \o NumberToString(d) \o " rejected")

\* the promise fromJsx returns
RootPromise == PromiseOf(<<>>)

(***************************************************************************)
(* The caller.                                                             *)
(***************************************************************************)
CallFromJsx ==
    /\ ~called
    /\ called' = TRUE
    /\ Install(fromJsx(Machine, input, options))
    /\ Turn(Step("call", 0))
    /\ UNCHANGED <<env, settled, outOfOrder, calledAgain>>

\* a second call with the same element and options, at any time after the
\* first
CallFromJsxAgain ==
    /\ called
    /\ ~calledAgain
    /\ calledAgain' = TRUE
    /\ Install(fromJsxOf(Machine, <<"again">>, input, options))
    /\ Turn(Step("again", 0))
    /\ UNCHANGED <<env, called, settled, outOfOrder>>

\* the caller's promises settle one per run of the microtask queue
SettleDeferred(d, state, value) ==
    /\ called
    /\ ~settled
    /\ promises[DeferredPromise(d)].state = "pending"
    /\ LET M == SettlePromise(Machine, DeferredPromise(d), state, value) IN
       /\ Install(M)
       /\ settled' = (M.microtasks # <<>>)
    /\ outOfOrder' = (outOfOrder \/
          (state = "fulfilled" /\
           \E e \in 1..(d - 1) : promises[DeferredPromise(e)].state = "pending"))
    /\ Turn(Step(state, d))
    /\ UNCHANGED <<env, called, calledAgain>>

FulfilDeferred ==
    \E d \in 1..Len(deferredValues) :
        SettleDeferred(d, "fulfilled", deferredValues[d])

RejectDeferred ==
    \E d \in rejectable : SettleDeferred(d, "rejected", RejectionOf(d))

(***************************************************************************)
(* Microtasks of the promise machinery.                                    *)
(***************************************************************************)
HeadIs(h) ==
    /\ microtasks # <<>>
    /\ Head(microtasks).job = "reaction"
    /\ Head(microtasks).handler.h = h

\* NewPromiseResolveThenableJob: thenable.then(resolve, reject)
ResolveThenableJob ==
    /\ microtasks # <<>>
    /\ Head(microtasks).job = "resolveThenable"
    /\ LET job == Head(microtasks) IN
       Ran(PerformPromiseThen(Dequeued, job.thenable,
                              ResolveFunctions(job.promise)))

\* the resolve / reject function of a promise, called with a settled value:
\* an async function's promise adopting the promise it returned, a task
\* adopting the promise of finally, and Promise.race settling
SettleFromReaction ==
    /\ HeadIs("resolveFunctions")
    /\ LET job == Head(microtasks) IN
       Ran(SettlePromise(Dequeued, job.handler.promise, job.state, job.value))

\* the value thunk / thrower of Promise.prototype.finally
FinallyPassThrough ==
    /\ HeadIs("valueThunk")
    /\ LET job == Head(microtasks) IN
       Ran(SettlePromise(Dequeued, job.handler.derived, job.state, job.value))

\* a resolve element function, or the reject function, of Promise.all
AllElement ==
    /\ HeadIs("allElement")
    /\ LET job == Head(microtasks)
           all == job.handler.promise
       IN IF job.state = "rejected"
          THEN Ran(SettlePromise(Dequeued, all, "rejected", job.value))
          ELSE IF promises[all].state # "pending" THEN Ran(Dequeued)
          ELSE IF promises[all].remaining = 1
               THEN Ran(SettlePromise(Dequeued, all, "fulfilled", Undefined))
          ELSE Ran([Dequeued EXCEPT !.promises[all].remaining = @ - 1])

(***************************************************************************)
(* collectIterable: the callbacks of lines 393-396.                        *)
(***************************************************************************)
\* groupedResults.push(nodes)
StorePushed(groupedResults, currentIndex, nodes) ==
    (Cardinality(DOMAIN groupedResults) :> nodes) @@ groupedResults

\* line 394: groupedResults[currentIndex] = nodes
Store(groupedResults, currentIndex, nodes) ==
    (currentIndex :> nodes) @@ groupedResults

\* .then((nodes) => { groupedResults[currentIndex] = nodes; }); a rejection
\* passes through to the derived promise
ThenCallback ==
    /\ HeadIs("then")
    /\ LET job == Head(microtasks)
           f == job.handler.frame
       IN IF job.state = "rejected"
          THEN Ran(SettlePromise(Dequeued, job.handler.derived,
                                 "rejected", job.value))
          ELSE Ran(SettlePromise(
                 [Dequeued EXCEPT !.frames[f].groupedResults =
                     Store(@, job.handler.currentIndex, job.value)],
                 job.handler.derived, "fulfilled", Undefined))

Remove(seq, x) == SelectSeq(seq, LAMBDA y : y # x)

\* .finally(() => inFlight.delete(task)): the callback runs, then the task
\* is resolved with Promise.resolve(result).then(thunk)
FinallyCallback ==
    /\ HeadIs("finally")
    /\ LET job == Head(microtasks)
           f == job.handler.frame
           task == job.handler.task
           thunk == Append(SubSeq(task, 1, Len(task) - 1), "finally")
           M1 == [Dequeued EXCEPT !.frames[f].inFlight = Remove(@, task)]
           M2 == NewPromise(M1, thunk, PendingPromise)
           M3 == [M2 EXCEPT !.microtasks =
                    Append(@, ReactionJob([h |-> "valueThunk", derived |-> thunk],
                                          job.state, job.value))]
       IN Ran(ResolveWithPromise(M3, task, thunk))

(***************************************************************************)
(* The continuations after each await.                                     *)
(***************************************************************************)
AwaitedAt(fn, line) ==
    /\ HeadIs("await")
    /\ frames[Head(microtasks).handler.frame].fn = fn
    /\ frames[Head(microtasks).handler.frame].line = line

\* the activation f returns or throws: its promise settles, it is over
Finish(M, f, state, value) ==
    SettlePromise([M EXCEPT !.frames[f].line = 0],
                  M.frames[f].promise, state, value)

\* line 86: return fromJsxInternal(await element, options)
ResumeDeferred ==
    /\ AwaitedAt("fromJsxInternal", 86)
    /\ LET job == Head(microtasks)
           f == job.handler.frame
       IN IF job.state = "rejected"
          THEN Ran(Finish([Dequeued EXCEPT !.errlog = Append(@, job.value)],
                          f, "rejected", job.value))
          ELSE Ran(ResolveWithPromise(
                      fromJsxInternal([Dequeued EXCEPT !.frames[f].line = 0],
                                      Append(f, "value"), job.value,
                                      frames[f].options),
                      frames[f].promise, PromiseOf(Append(f, "value"))))

\* lines 93-94: const result = await processReactElement(...)
ResumeElement ==
    /\ AwaitedAt("fromJsxInternal", 93)
    /\ LET job == Head(microtasks) IN
       Ran(Finish(Dequeued, job.handler.frame, job.state, job.value))

\* lines 213-214: const children = await collectChildren(...)
ResumeFragment ==
    /\ AwaitedAt("processReactElement", 213)
    /\ LET job == Head(microtasks) IN
       Ran(Finish(Dequeued, job.handler.frame, job.state, job.value))

\* lines 247-256: the Container of a general host element
ResumeContainer ==
    /\ AwaitedAt("processReactElement", 247)
    /\ LET job == Head(microtasks)
           f == job.handler.frame
       IN IF job.state = "rejected"
          THEN Ran(Finish(Dequeued, f, "rejected", job.value))
          ELSE Ran(Finish(Dequeued, f, "fulfilled",
                 <<container([children |-> job.value] @@ frames[f].fields)>>))

\* line 401: after await Promise.race(inFlight), the loop goes on
ResumeRace ==
    /\ AwaitedAt("collectIterable", 401)
    /\ LET job == Head(microtasks)
           f == job.handler.frame
       IN IF job.state = "rejected"
          THEN Ran(Finish(Dequeued, f, "rejected", job.value))
          ELSE Ran(collectIterableLoop(
                      [Dequeued EXCEPT !.frames[f].line = 388], f))

RECURSIVE FlattenFrom(_, _)
\* lines 407-410 from index i: the groups in index order, holes skipped
FlattenFrom(groupedResults, i) ==
    IF \A j \in DOMAIN groupedResults : j < i THEN <<>>
    ELSE (IF i \in DOMAIN groupedResults THEN groupedResults[i] ELSE <<>>)
            \o FlattenFrom(groupedResults, i + 1)

\* lines 405-412: after await Promise.all(inFlight)
ResumeAll ==
    /\ AwaitedAt("collectIterable", 405)
    /\ LET job == Head(microtasks)
           f == job.handler.frame
       IN IF job.state = "rejected"
          THEN Ran(Finish(Dequeued, f, "rejected", job.value))
          ELSE Ran(Finish(Dequeued, f, "fulfilled",
                          FlattenFrom(frames[f].groupedResults, 0)))

\* a root that fills its parent
EmptyRootFilling ==
    container([style |-> [width |-> percentage(100),
                          height |-> percentage(100)]])

\* line 62: container({}), whose children field is undefined
EmptyRoot == container(<<>>)

\* the only node of the result in a Container
SingleRootWrapped(result) == container([children |-> result])

\* lines 65-67: the only node of the result
SingleRoot(result) == result[1]

\* a Container without the style
WrapRootsBare(result) == container([children |-> result])

\* lines 69-75
WrapRoots(result) ==
    container([children |-> result,
               style |-> [width |-> percentage(100),
                          height |-> percentage(100)]])

\* lines 61-75 of fromJsx
RootOf(result) ==
    IF Len(result) = 0 THEN EmptyRoot
    ELSE IF Len(result) = 1 THEN SingleRoot(result)
    ELSE WrapRoots(result)

ResumeFromJsx ==
    /\ AwaitedAt("fromJsx", 56)
    /\ LET job == Head(microtasks)
           f == job.handler.frame
       IN IF job.state = "rejected"
          THEN Ran(Finish(Dequeued, f, "rejected", job.value))
          ELSE Ran(Finish(Dequeued, f, "fulfilled", RootOf(job.value)))

(***************************************************************************)
(* The compiles explored.                                                  *)
(***************************************************************************)
Letter(i) == <<"a", "b", "c", "d", "e", "f", "g", "h", "i", "j", "k", "l">>[i]

MaxChildren == MAX_CONCURRENT_ITERABLE_RESOLUTION + MaxOverCap

Compile(in, opts, dv, rej) ==
    [input |-> in, options |-> opts, deferredValues |-> dv, rejectable |-> rej]

\* arrays of n strings, one of them possibly replaced by an img without src
SyncArrays ==
    {Compile(Iterable([i \in 1..n |-> IF i = x THEN Host("img", NoProps)
                                      ELSE Str(Letter(i))]),
             NoOptions, <<>>, {}) : n \in 0..MaxChildren, x \in 0..MaxChildren}

\* arrays of n promises of strings; the first or the last may reject
DeferredArrays ==
    {Compile(Iterable([i \in 1..n |-> Deferred(i)]), NoOptions,
             [i \in 1..n |-> Str(Letter(i))], r \cap (1..n)) :
        n \in 1..MaxChildren, r \in {{}, {1}, {MaxChildren}, {MaxChildren - 1}}}

\* what promise 1 fulfils with in the trees below
Later == Host("em", Children(Str("later")))

\* elements that resolve to no node, to one node, or fail
Leaves ==
    {Null, Undefined, False, Str("x"), Num(42), Deferred(1),
     Host("strong", Children(Str("bold"))),
     Host("img", [src |-> "a.png"]),
     Host("img", NoProps),
     Host("svg", NoProps),
     Host("br", NoProps),
     Host("script", Children(Str("alert(1)"))),
     Element(FunctionReturning(Host("em", Children(Str("fc")))), NoProps),
     Element(FunctionThrowing("boom"), NoProps),
     Fragment(Children(Str("f1")))}

\* and to two nodes
Kids == Leaves \cup {Fragment(Children(Iterable(<<Str("f1"), Num(2)>>)))}

\* children a host element collapses to text
TextChildren ==
    {Str("Hello"), Str(""), Num(7), Iterable(<<>>),
     Iterable(<<Str("Hello "), Str("World")>>),
     Iterable(<<Str("n = "), Num(12)>>),
     Fragment(Children(Str("bold text"))),
     Fragment(Children(Fragment(Children(Iterable(<<Str("a"), Num(1)>>)))))}

\* children that hold something other than strings and numbers
OtherChildren ==
    Kids
    \cup {Iterable(<<Str("Text with "), kid>>) : kid \in Leaves}
    \cup {Iterable(<<Str("a"), Iterable(<<Str("b"), Num(3)>>)>>),
          Iterable(<<Iterable(<<Str("b")>>)>>),
          Fragment(NoProps)}

GeneralTags == {"div", "p", "h1", "span"}

Hosts ==
    {Host(tag, props) :
        tag \in GeneralTags \cup voidElements,
        props \in {NoProps} \cup {Children(c) : c \in TextChildren \cup OtherChildren}}

\* the elements put behind a wrapper
Inner ==
    {Host(tag, props) :
        tag \in {"div", "script"},
        props \in {NoProps} \cup {Children(c) : c \in TextChildren \cup Leaves}}

\* an element behind each kind of wrapper
Wrapped(e) ==
    {Iterable(<<e>>), Iterable(<<e, Str("tail")>>),
     Fragment(Children(e)),
     Element(FunctionReturning(e), NoProps),
     Element(FunctionReturningChildren, Children(e)),
     Element(Memo(FunctionReturning(e)), NoProps),
     Element(ForwardRef(FunctionReturning(e)), NoProps),
     Deferred(2)}

\* host elements with a style and a tw prop
Styled ==
    {Host(tag, [children |-> c, style |-> [color |-> "red"], tw |-> Str("p-4")]) :
        tag \in {"div", "p"},
        c \in {Str("Hello"), Fragment(Children(Iterable(<<Str("n = "), Num(12)>>))),
               Host("strong", Children(Str("bold")))}}

Trees ==
    {Compile(e, NoOptions, <<Later>>, {1}) : e \in Kids \cup Hosts \cup Styled}
    \cup UNION {{Compile(w, NoOptions, <<Later, e>>, {1}) : w \in Wrapped(e)} :
                    e \in Inner}
    \cup {Compile(Element(Memo(Tag(tag)), props), NoOptions, <<Later>>, {}) :
            tag \in {"div", "script", "img"},
            props \in {NoProps, Children(Str("memo")),
                       Children(Host("strong", Children(Str("bold"))))}}

Boom == Element(FunctionThrowing("boom"), NoProps)

\* compiles in which two resolutions fail
TwoFailures ==
    {Compile(Iterable(<<Iterable(<<Boom>>), Host("img", NoProps)>>),
             NoOptions, <<>>, {}),
     Compile(Iterable(<<Host("img", NoProps), Boom>>), NoOptions, <<>>, {}),
     Compile(Iterable(<<Deferred(1), Host("img", NoProps)>>),
             NoOptions, <<Str("a")>>, {1}),
     Compile(Iterable(<<Deferred(1), Deferred(2)>>),
             NoOptions, <<Str("a"), Str("b")>>, {1, 2}),
     Compile(Iterable([i \in 1..MaxChildren |->
                         IF i = MAX_CONCURRENT_ITERABLE_RESOLUTION THEN Boom
                         ELSE IF i = MaxChildren THEN Deferred(1)
                         ELSE Str(Letter(i))]),
             NoOptions, <<Str("z")>>, {1})}

\* img and svg elements, with and without a source and a size
Images ==
    {Compile(e, NoOptions, <<>>, {}) : e \in
        {Host("img", [src |-> ""]),
         Host("div", Children(Iterable(
            <<Host("img", [src |-> "a.png", width |-> 10, height |-> 20]),
              Host("svg", [width |-> 5]),
              Host("p", Children(Host("img", [src |-> "b.png"])))>>))),
         Host("div", Children(Iterable(
            <<Host("img", [src |-> "a.png"]), Host("svg", NoProps),
              Host("img", [src |-> ""])>>)))}}

\* a caller's table: an entry that differs from the default one, an empty
\* entry, an entry for br, and one for span
CustomPresets ==
    [h1 |-> [fontSize |-> "3em", color |-> "red"],
     p |-> <<>>,
     br |-> [display |-> "block"],
     span |-> [color |-> "blue"]]

OptionSets ==
    {NoOptions,
     [defaultStyles |-> False],
     [defaultStyles |-> Table(<<>>)],
     [defaultStyles |-> Table(CustomPresets)],
     [tailwindClassesProperty |-> "className"],
     [defaultStyles |-> Table(CustomPresets),
      tailwindClassesProperty |-> "className"]}

\* style, tw and className props: absent, empty, of another type, present
StyleProps ==
    {NoProps,
     [style |-> [fontSize |-> "10em", display |-> "flex"]],
     [style |-> <<>>, tw |-> Str("")],
     [tw |-> Str("p-4"), className |-> Str("m-2")],
     [tw |-> Num(4), style |-> [color |-> "green"]]}

\* host elements of each kind carrying the props
StyledHosts(props) ==
    {Host("h1", Children(Str("Hi")) @@ props),
     Host("p", Children(Str("Hi")) @@ props),
     Host("div", Children(Str("Hi")) @@ props),
     Host("p", Children(Host("h1", Children(Str("Title")))) @@ props),
     Host("img", [src |-> "a.png"] @@ props),
     Host("svg", props),
     Host("br", props)}

\* elements compiled under each of the options, alone and as children
Optioned ==
    UNION {{Compile(e, o, <<>>, {}) : e \in StyledHosts(props)} :
              props \in StyleProps, o \in OptionSets}
    \cup {Compile(Host("p", Children(Iterable(
                     <<Host("h1", Children(Str("Title")) @@ props),
                       Host("p", Children(Str("Para"))),
                       Str("raw"),
                       Host("br", props),
                       Host("img", [src |-> "a.png"] @@ props)>>)) @@ props),
                   o, <<>>, {}) :
              props \in StyleProps, o \in OptionSets}

\* what the components below return
Title == Host("h1", Children(Str("Inner Title")))

\* a synchronous component, an asynchronous one (it returns promise 1), one
\* that returns the asynchronous one, and one that returns its children prop
SyncComponent == Element(FunctionReturning(Title), NoProps)
AsyncComponent == Element(FunctionReturning(Deferred(1)), NoProps)
OuterComponent == Element(FunctionReturning(AsyncComponent), NoProps)
PropsComponent == Element(FunctionReturningChildren, Children(Title))

\* components next to what they return, at the top and under a host element
Components ==
    UNION {{Compile(Iterable(row), o, <<Title>>, {}),
            Compile(Host("div", Children(Iterable(row))), o, <<Title>>, {})} :
              row \in {<<SyncComponent, AsyncComponent, Title>>,
                       <<OuterComponent, AsyncComponent, PropsComponent, Title>>},
              o \in {NoOptions, [defaultStyles |-> Table(CustomPresets)]}}
    \cup {Compile(Iterable(<<Element(FunctionReturning(e), NoProps), e>>),
                   NoOptions, <<>>, {}) :
              e \in {Null, Num(7), Iterable(<<Str("a"), Title>>)}}

Bold == Host("strong", Children(Str("bold")))

\* fragments next to their children, and a host element with a fragment
\* among its children next to one with the fragment's children in its place
Fragments ==
    {Compile(Iterable(<<Fragment(NoProps), Undefined>>), NoOptions, <<>>, {})}
    \cup {Compile(Iterable(<<Fragment(Children(c)), c>>),
                   NoOptions, <<Later>>, {1}) :
              c \in {Str("t"), Iterable(<<Bold, Str("b")>>),
                     Fragment(Children(Num(1))), Deferred(1),
                     Host("img", NoProps)}}
    \cup {Compile(Iterable(
             <<Host("div", Children(Iterable(
                  <<Fragment(Children(Iterable(<<Str("a"), Str("b")>>))),
                    Host("br", NoProps)>>))),
               Host("div", Children(Iterable(
                  <<Str("a"), Str("b"), Host("br", NoProps)>>)))>>),
             NoOptions, <<>>, {})}

\* forward-ref and memo elements next to what they stand for
Wrappers ==
    {Compile(Iterable(row), NoOptions, <<>>, {}) : row \in
        {<<Element(ForwardRef(FunctionReturning(Title)), NoProps), Title>>,
         <<Element(ForwardRef(FunctionReturningChildren), Children(Bold)), Bold>>,
         <<Element(Memo(FunctionReturning(Title)), NoProps), Title>>,
         <<Element(Memo(FunctionReturningChildren), Children(Bold)), Bold>>,
         <<Element(Memo(Tag("p")),
                   [children |-> Str("memo"), style |-> [color |-> "red"]]),
           Host("p", [children |-> Str("memo"), style |-> [color |-> "red"]])>>,
         <<Element(Memo(Tag("div")), Children(Bold)),
           Host("div", Children(Bold))>>,
         <<Element(Memo(Tag("img")), NoProps), Host("img", NoProps)>>,
         <<Element(Memo(Tag("script")), Children(Bold)),
           Host("script", Children(Bold))>>,
         <<Element(Memo(REACT_FRAGMENT_TYPE), Children(Bold)),
           Fragment(Children(Bold))>>,
         <<Element(Memo(Memo(FunctionReturning(Title))), NoProps),
           Element(Memo(FunctionReturning(Title)), NoProps)>>,
         <<Element(Memo(ForwardRef(FunctionReturningChildren)), Children(Bold)),
           Element(ForwardRef(FunctionReturningChildren), Children(Bold)),
           Bold>>}}

\* a sequence above the cap, all of whose members wait for promise 2, as
\* the first member of a sequence of 2 and of 8 members
Nested ==
    {Compile(Iterable([i \in 1..n |->
                IF i > 1 THEN Deferred(1)
                ELSE Iterable([j \in 1..MaxChildren |-> Deferred(2)])]),
             NoOptions, <<Str("a"), Str("b")>>, {}) :
        n \in {2, MAX_CONCURRENT_ITERABLE_RESOLUTION}}

\* a component that returns promise d
Asking(d) == Element(FunctionReturning(Deferred(d)), NoProps)

\* sequences above the cap of components: the first returns promise 1, the
\* others promise 2
ComponentQueue ==
    {Compile(Iterable([i \in 1..MaxChildren |->
                         IF i = 1 THEN Asking(1) ELSE Asking(2)]),
             NoOptions, <<Str("a"), Str("b")>>, {})}

Compiles ==
    SyncArrays \cup DeferredArrays \cup Trees \cup TwoFailures \cup Images
        \cup Optioned \cup Components \cup Fragments \cup Wrappers
        \cup Nested \cup ComponentQueue

MaxSettling == 3

\* the compiles followed to their end: of the arrays of promises, those of
\* up to MaxSettling members
Settling ==
    (Compiles \ DeferredArrays)
        \cup {c \in DeferredArrays : Len(c.deferredValues) <= MaxSettling}

\* the playground page before the worker is ready: nothing displayed
NoPage ==
    [isReady |-> FALSE, currentRequestId |-> 0,
     rendered |-> [status |-> "none", id |-> 0]]

\* no program around the compile
NoApps ==
    /\ backend = "none"
    /\ renderer = [made |-> FALSE, loaded |-> <<>>]
    /\ fontLoadMarker = {}
    /\ requests = <<>>
    /\ toWorker = <<>>
    /\ toPage = <<>>
    /\ page = NoPage

\* fromJsx is not yet called in one of the compiles cs
Uncalled(cs) ==
    /\ action = Step("none", 0)
    /\ \E c \in cs :
          /\ input = c.input
          /\ options = c.options
          /\ deferredValues = c.deferredValues
          /\ rejectable = c.rejectable
    /\ promises = [name \in {DeferredPromise(d) : d \in 1..Len(deferredValues)}
                     |-> PendingPromise]
    /\ frames = <<>>
    /\ microtasks = <<>>
    /\ errlog = <<>>
    /\ invoked = <<>>
    /\ called = FALSE
    /\ settled = FALSE
    /\ outOfOrder = FALSE
    /\ calledAgain = FALSE
    /\ tick = FALSE

\* before fromJsx is called in one of the compiles cs
Compiling(cs) == Uncalled(cs) /\ NoApps

Init == Compiling(Compiles)

Next ==
    \/ CallFromJsx
    \/ FulfilDeferred
    \/ RejectDeferred
    \/ ResolveThenableJob
    \/ SettleFromReaction
    \/ FinallyPassThrough
    \/ AllElement
    \/ ThenCallback
    \/ FinallyCallback
    \/ ResumeDeferred
    \/ ResumeElement
    \/ ResumeFragment
    \/ ResumeContainer
    \/ ResumeRace
    \/ ResumeAll
    \/ ResumeFromJsx

Spec == Init /\ [][Next]_vars

\* the compiles made twice
Repeated == Fragments \cup Nested \cup ComponentQueue

\* two calls of fromJsx with the same element, the second at any time
TwiceNext == Next \/ CallFromJsxAgain

TwiceSpec == Compiling(Repeated) /\ [][TwiceNext]_vars

\* a step of the compile is possible: fromJsx is to be called, a job is
\* queued, or a promise of the caller can settle
CanStep ==
    \/ ~called
    \/ microtasks # <<>>
    \/ /\ ~settled
       /\ \E d \in 1..Len(deferredValues) :
             promises[DeferredPromise(d)].state = "pending"

\* the job queue is always run to its end and every promise of the caller
\* settles: a step is taken as long as one is possible
FairSpec ==
    /\ Compiling(Settling)
    /\ [][Next]_vars
    /\ WF_tick(CanStep /\ tick' = ~tick)

(***************************************************************************)
(* The programs that call fromJsx: ImageResponse (node.ts, wasm.ts) and    *)
(* the playground (worker.ts, playground.tsx).  A request's compile is the *)
(* promise fromJsx returns: it fulfils or rejects.                         *)
(***************************************************************************)
MaxRequests == 2

\* the fonts arrays passed with the requests: of the Font objects 1 and 2
FontArrays == {<<>>, <<1>>, <<1, 2>>}

FontsOf(fonts) == {fonts[i] : i \in 1..Len(fonts)}

\* the module-level renderer and marker after a call
Loaded(R, marker) == [renderer |-> R, marker |-> marker]

\* node.ts loadFonts
loadFonts(R, marker, fonts) ==
    LET fontsToLoad == SelectSeq(fonts, LAMBDA font : font \notin marker) IN
    Loaded([R EXCEPT !.loaded = @ \o fontsToLoad],
           marker \cup FontsOf(fontsToLoad))

\* node.ts getRenderer up to its return or its await; own: the options
\* carry a renderer
getRendererNode(R, marker, own, fonts) ==
    IF own THEN Loaded(R, marker)
    ELSE IF ~R.made
         THEN Loaded([made |-> TRUE, loaded |-> fonts],
                     marker \cup FontsOf(fonts))
         ELSE loadFonts(R, marker, fonts)

\* wasm.ts loadFont
loadFont(R, marker, font) ==
    IF font \in marker THEN R ELSE [R EXCEPT !.loaded = Append(@, font)]

RECURSIVE loadEach(_, _, _)
\* wasm.ts: for (const font of options.fonts) loadFont(font, renderer)
loadEach(R, marker, fonts) ==
    IF fonts = <<>> THEN R
    ELSE loadEach(loadFont(R, marker, Head(fonts)), marker, Tail(fonts))

\* wasm.ts getRenderer
getRendererWasm(R, marker, own, fonts) ==
    IF own THEN Loaded(R, marker)
    ELSE Loaded(loadEach([R EXCEPT !.made = TRUE], marker, fonts), marker)

\* a request: pc is the await it stands at, renders counts the calls of
\* render, answers lists the render-results posted for it
Request(id, own, fonts, pc) ==
    [id |-> id, own |-> own, fonts |-> fonts, pc |-> pc,
     compile |-> "pending", renders |-> 0, stream |-> "open",
     answers |-> <<>>]

\* a message between page and worker; status is the status of a result
\* and, in a request, what becomes of the code when it is evaluated
Message(type, status, id) == [type |-> type, status |-> status, id |-> id]

\* a step of a program: no compile of the model above moves
AppTurn(step) ==
    /\ action' = step
    /\ tick' = ~tick
    /\ UNCHANGED jsx

\* the catch block of a request that swallows the failure and goes on
CaughtAndWentOn(r, next) == [r EXCEPT !.pc = next]

\* the catch block of createStream: controller.error(error)
Caught(r, next) == [r EXCEPT !.pc = "done", !.stream = "errored"]

\* new ImageResponse(component, options) on node: start() runs up to the
\* await of getRenderer
NewImageResponseNode ==
    /\ backend = "node"
    /\ Len(requests) < MaxRequests
    /\ \E own \in BOOLEAN, fonts \in FontArrays :
          LET got == getRendererNode(renderer, fontLoadMarker, own,
                                     IF own THEN <<>> ELSE fonts)
          IN /\ renderer' = got.renderer
             /\ fontLoadMarker' = got.marker
             /\ requests' = Append(requests,
                   Request(Len(requests) + 1, own,
                           IF own THEN <<>> ELSE fonts, "getRenderer"))
    /\ AppTurn(Step("new", Len(requests) + 1))
    /\ UNCHANGED <<backend, toWorker, toPage, page>>

\* node: getRenderer has returned and fromJsx is called
CallCompileNode ==
    /\ backend = "node"
    /\ \E i \in 1..Len(requests) :
          /\ requests[i].pc = "getRenderer"
          /\ requests' = [requests EXCEPT ![i].pc = "compile"]
          /\ AppTurn(Step("compile", i))
    /\ UNCHANGED <<backend, renderer, fontLoadMarker, toWorker, toPage, page>>

\* new ImageResponse(component, options) on wasm: start() runs up to the
\* await of options.module
NewImageResponseWasm ==
    /\ backend = "wasm"
    /\ Len(requests) < MaxRequests
    /\ \E own \in BOOLEAN, fonts \in FontArrays :
          requests' = Append(requests,
             Request(Len(requests) + 1, own,
                     IF own THEN <<>> ELSE fonts, "init"))
    /\ AppTurn(Step("new", Len(requests) + 1))
    /\ UNCHANGED <<backend, renderer, fontLoadMarker, toWorker, toPage, page>>

\* wasm: the module is there and init is done, or one of them failed;
\* getRenderer runs and fromJsx is called
CallCompileWasm ==
    /\ backend = "wasm"
    /\ \E i \in 1..Len(requests), ok \in BOOLEAN :
          /\ requests[i].pc = "init"
          /\ IF ok
             THEN LET got == getRendererWasm(renderer, fontLoadMarker,
                                             requests[i].own,
                                             requests[i].fonts)
                  IN /\ renderer' = got.renderer
                     /\ fontLoadMarker' = got.marker
                     /\ requests' = [requests EXCEPT ![i].pc = "compile"]
             ELSE /\ requests' = [requests EXCEPT
                                     ![i] = Caught(@, "compile")]
                  /\ UNCHANGED <<renderer, fontLoadMarker>>
          /\ AppTurn(Step("compile", i))
    /\ UNCHANGED <<backend, toWorker, toPage, page>>

\* the promise of fromJsx settles for a request of ImageResponse: a
\* rejection goes to the catch block; wasm goes on to fetch the resources
\* of the node, node to render
CompileSettlesStream ==
    /\ backend \in {"node", "wasm"}
    /\ \E i \in 1..Len(requests), state \in {"fulfilled", "rejected"} :
          /\ requests[i].pc = "compile"
          /\ LET next == IF backend = "wasm" THEN "fetch" ELSE "render"
                 r == [requests[i] EXCEPT !.compile = state]
             IN requests' = [requests EXCEPT ![i] =
                   IF state = "rejected" THEN Caught(r, next)
                   ELSE [r EXCEPT !.pc = next]]
          /\ AppTurn(Step(state, i))
    /\ UNCHANGED <<backend, renderer, fontLoadMarker, toWorker, toPage, page>>

\* wasm: the resources are fetched, or a fetch failed
FetchSettlesStream ==
    /\ backend = "wasm"
    /\ \E i \in 1..Len(requests), ok \in BOOLEAN :
          /\ requests[i].pc = "fetch"
          /\ requests' = [requests EXCEPT ![i] =
                IF ok THEN [@ EXCEPT !.pc = "render"] ELSE Caught(@, "render")]
          /\ AppTurn(Step("fetch", i))
    /\ UNCHANGED <<backend, renderer, fontLoadMarker, toWorker, toPage, page>>

\* renderer.render(node, options) is called and gives the image or fails
RenderStream ==
    /\ backend \in {"node", "wasm"}
    /\ \E i \in 1..Len(requests), ok \in BOOLEAN :
          /\ requests[i].pc = "render"
          /\ LET r == [requests[i] EXCEPT !.renders = @ + 1] IN
             requests' = [requests EXCEPT ![i] =
                IF ok THEN [r EXCEPT !.pc = "done", !.stream = "closed"]
                ELSE Caught(r, "done")]
          /\ AppTurn(Step("render", i))
    /\ UNCHANGED <<backend, renderer, fontLoadMarker, toWorker, toPage, page>>

\* worker.ts start-up: the renderer is made with its three fonts and
\* ready is posted
WorkerBoots ==
    /\ backend = "worker"
    /\ ~renderer.made
    /\ renderer' = [made |-> TRUE, loaded |-> <<1, 2, 3>>]
    /\ toPage' = Append(toPage, Message("ready", "none", 0))
    /\ AppTurn(Step("boot", 0))
    /\ UNCHANGED <<backend, fontLoadMarker, requests, toWorker, page>>

\* playground.tsx: the page posts a render-request with the next id
\* (lines 123-132); the code it sends evaluates or throws
PageRequests ==
    /\ backend = "worker"
    /\ page.isReady
    /\ page.currentRequestId < MaxRequests
    /\ LET requestId == page.currentRequestId + 1 IN
       /\ page' = [page EXCEPT !.currentRequestId = requestId]
       /\ \E code \in {"evaluates", "throws"} :
             toWorker' = Append(toWorker,
                                Message("render-request", code, requestId))
       /\ AppTurn(Step("request", requestId))
    /\ UNCHANGED <<backend, renderer, fontLoadMarker, requests, toPage>>

\* a render-result the page shows
AcceptsAny(p, result) == TRUE

\* playground.tsx line 103
Accepts(p, result) == result.id = p.currentRequestId

\* playground.tsx worker.onmessage
PageReceives ==
    /\ backend = "worker"
    /\ toPage # <<>>
    /\ LET message == Head(toPage) IN
       /\ toPage' = Tail(toPage)
       /\ page' =
             IF message.type = "ready" THEN [page EXCEPT !.isReady = TRUE]
             ELSE IF Accepts(page, message)
                  THEN [page EXCEPT !.rendered =
                           [status |-> message.status, id |-> message.id]]
                  ELSE page
       /\ AppTurn(Step(message.type, message.id))
    /\ UNCHANGED <<backend, renderer, fontLoadMarker, requests, toWorker>>

\* worker.ts postMessage({type: "render-result", result: {status, id:
\* payload.id, ...}}) for request i of rs
PostResult(rs, i, status) == Message("render-result", status, rs[i].id)

\* request i of rs is answered with status
Answered(rs, i, status) ==
    [rs EXCEPT ![i].pc = "done",
               ![i].answers =
                  Append(@, [status |-> status,
                             id |-> PostResult(rs, i, status).id])]

\* worker.ts self.onmessage up to the await of fromJsx: without a renderer
\* it throws; code that throws is answered with an error
WorkerReceives ==
    /\ backend = "worker"
    /\ toWorker # <<>>
    /\ LET payload == Head(toWorker)
           rs == Append(requests, Request(payload.id, FALSE, <<>>, "compile"))
       IN /\ toWorker' = Tail(toWorker)
          /\ IF ~renderer.made THEN UNCHANGED <<requests, toPage>>
             ELSE IF payload.status = "throws"
             THEN /\ requests' = Answered(rs, Len(rs), "error")
                  /\ toPage' = Append(toPage, PostResult(rs, Len(rs), "error"))
             ELSE /\ requests' = rs
                  /\ UNCHANGED toPage
          /\ AppTurn(Step("receive", payload.id))
    /\ UNCHANGED <<backend, renderer, fontLoadMarker, page>>

\* the promise of fromJsx settles for a request of the worker
CompileSettlesWorker ==
    /\ backend = "worker"
    /\ \E i \in 1..Len(requests), state \in {"fulfilled", "rejected"} :
          /\ requests[i].pc = "compile"
          /\ LET rs == [requests EXCEPT ![i].compile = state] IN
             IF state = "rejected"
             THEN /\ requests' = Answered(rs, i, "error")
                  /\ toPage' = Append(toPage, PostResult(rs, i, "error"))
             ELSE /\ requests' = [rs EXCEPT ![i].pc = "fetch"]
                  /\ UNCHANGED toPage
          /\ AppTurn(Step(state, i))
    /\ UNCHANGED <<backend, renderer, fontLoadMarker, toWorker, page>>

\* worker: fetchResources settles; then renderAsDataUrl gives the data
\* url or throws
RenderWorker ==
    /\ backend = "worker"
    /\ \E i \in 1..Len(requests), fetched \in BOOLEAN, ok \in BOOLEAN :
          /\ requests[i].pc = "fetch"
          /\ LET status == IF fetched /\ ok THEN "success" ELSE "error"
                 rs == [requests EXCEPT ![i].renders =
                           IF fetched THEN @ + 1 ELSE @]
             IN /\ requests' = Answered(rs, i, status)
                /\ toPage' = Append(toPage, PostResult(rs, i, status))
          /\ AppTurn(Step("render", i))
    /\ UNCHANGED <<backend, renderer, fontLoadMarker, toWorker, page>>

AppInit ==
    /\ Uncalled({Compile(Null, NoOptions, <<>>, {})})
    /\ backend \in {"node", "wasm", "worker"}
    /\ renderer = [made |-> FALSE, loaded |-> <<>>]
    /\ fontLoadMarker = {}
    /\ requests = <<>>
    /\ toWorker = <<>>
    /\ toPage = <<>>
    /\ page = NoPage

AppNext ==
    \/ NewImageResponseNode
    \/ CallCompileNode
    \/ NewImageResponseWasm
    \/ CallCompileWasm
    \/ CompileSettlesStream
    \/ FetchSettlesStream
    \/ RenderStream
    \/ WorkerBoots
    \/ PageRequests
    \/ PageReceives
    \/ WorkerReceives
    \/ CompileSettlesWorker
    \/ RenderWorker

AppSpec == AppInit /\ [][AppNext]_vars

(***************************************************************************)
(* Properties.                                                             *)
(***************************************************************************)
\* the promise of the call fromJsxInternal(element, ...) of line 56
Resolved == PromiseOf(<<"root">>)

Fulfilled(p) == p \in DOMAIN promises /\ promises[p].state = "fulfilled"

Rejected(p) == p \in DOMAIN promises /\ promises[p].state = "rejected"

\* the promise of the resolution of child i of the fan-out f
ChildPromise(f, i) == PromiseOf(Append(f, NumberToString(i)))

\* the fan-outs: the activations of collectIterable
FanOuts == {f \in DOMAIN frames : frames[f].fn = "collectIterable"}

\* the children of fan-out f that have been started and have not finished
InFlight(f) ==
    {i \in 0..(frames[f].index - 1) : promises[ChildPromise(f, i)].state = "pending"}

\* C1: the result of a fan-out is the concatenation, in input order, of the
\* results of its children, whatever the order in which they completed
C1_OrderPreserved ==
    \A f \in FanOuts :
        Fulfilled(frames[f].promise) =>
            LET RECURSIVE concat(_)
                concat(i) ==
                    IF i >= Len(frames[f].iterable) THEN <<>>
                    ELSE (IF Fulfilled(ChildPromise(f, i))
                          THEN promises[ChildPromise(f, i)].value ELSE <<>>)
                         \o concat(i + 1)
            IN promises[frames[f].promise].value = concat(0)

\* a fan-out above the cap whose children completed out of input order
C1_Witness ==
    \E f \in FanOuts :
        /\ Fulfilled(frames[f].promise)
        /\ Len(frames[f].iterable) > MAX_CONCURRENT_ITERABLE_RESOLUTION
        /\ Len(promises[frames[f].promise].value) = Len(frames[f].iterable)
        /\ outOfOrder

\* C2: at most 8 children of a fan-out are in flight, and no element is
\* pulled from the sequence while 8 are
C2_ConcurrencyBound ==
    /\ [](\A f \in FanOuts : Cardinality(InFlight(f)) <= 8)
    /\ [][\A f \in FanOuts :
             Cardinality(InFlight(f)) >= 8 => frames'[f].next = frames[f].next]_vars

\* 8 children in flight and an element of the sequence not yet pulled
C2_Witness ==
    \E f \in FanOuts :
        /\ Cardinality(InFlight(f)) = 8
        /\ frames[f].next <= Len(frames[f].iterable)

\* C3: a compile in which a resolution failed does not fulfil
C3_NoPartialOutput == Fulfilled(RootPromise) => errlog = <<>>

\* C4: a compile that rejects, rejects with the error raised first
C4_FirstErrorWins ==
    Rejected(RootPromise) =>
        errlog # <<>> /\ promises[RootPromise].value = errlog[1]

\* C5: null, undefined, false and any input that resolves to no node give a
\* Container with the type field alone
C5_EmptyInput ==
    Fulfilled(RootPromise) =>
        ((input.k \in {"null", "undefined", "false"}
          \/ promises[Resolved].value = <<>>)
         => promises[RootPromise].value = [type |-> "container"])

C5_Witness ==
    /\ Fulfilled(RootPromise)
    /\ input = Null
    /\ promises[RootPromise].value = [type |-> "container"]

\* C6: an input that resolves to exactly one node gives that node
C6_SingleRoot ==
    (Fulfilled(RootPromise) /\ Len(promises[Resolved].value) = 1) =>
        promises[RootPromise].value = promises[Resolved].value[1]

\* a one-element sequence, a fragment or a component with one node
C6_Witness ==
    /\ Fulfilled(RootPromise)
    /\ Len(promises[Resolved].value) = 1
    /\ input.k \in {"iterable", "element"}
    /\ promises[RootPromise].value.type = "text"

\* C7: an input that resolves to two or more nodes gives one Container with
\* those nodes, in order, as children and width and height of 100%; the
\* value of a compile is always one node
C7_MultiRoot ==
    Fulfilled(RootPromise) =>
        /\ promises[RootPromise].value.type \in {"container", "text", "image"}
        /\ Len(promises[Resolved].value) >= 2 =>
              promises[RootPromise].value =
                 [type |-> "container",
                  children |-> promises[Resolved].value,
                  style |-> [width |-> "100%", height |-> "100%"]]

C7_Witness ==
    /\ Fulfilled(RootPromise)
    /\ Len(promises[Resolved].value) >= 2
    /\ Len(promises[RootPromise].value.children) = Len(promises[Resolved].value)

\* the table in effect: the default one when defaultStyles is omitted, the
\* caller's when it is an object, none (no entries) when it is false
EffectiveTable ==
    IF "defaultStyles" \notin DOMAIN options THEN defaultStylePresets
    ELSE IF options.defaultStyles = False THEN <<>>
    ELSE options.defaultStyles.table

\* the preset field of a node made for tag
ExpectedPreset(tag) ==
    IF tag \in DOMAIN EffectiveTable /\ DOMAIN EffectiveTable[tag] # {}
    THEN [preset |-> EffectiveTable[tag]] ELSE <<>>

\* the style field of a node made for an element with props
ExpectedStyle(props) ==
    IF "style" \in DOMAIN props /\ DOMAIN props.style # {}
    THEN [style |-> props.style] ELSE <<>>

\* the name of the prop that carries the utility classes
TwProperty ==
    IF "tailwindClassesProperty" \in DOMAIN options
    THEN options.tailwindClassesProperty ELSE "tw"

\* the tw field of a node made for an element with props
ExpectedTw(props) ==
    IF TwProperty \in DOMAIN props /\ props[TwProperty].k = "string"
       /\ props[TwProperty].s # ""
    THEN [tw |-> props[TwProperty].s] ELSE <<>>

\* the input is a host element that is not void, br, img or svg
GeneralHost ==
    /\ input.k = "element"
    /\ input.type.t = "string"
    /\ input.type.tag \notin {"head", "meta", "link", "style", "script",
                              "br", "img", "svg"}

\* C8: a general host element resolves to one node: a Text node with the
\* concatenation of its children when they are a string, a number or a
\* sequence of strings and numbers, also inside fragments; a Container of
\* the resolved children when a child is an element; with the element's own
\* preset, style and tw
C8_TextCollapsing ==
    (GeneralHost /\ Fulfilled(Resolved)) =>
        LET RECURSIVE unwrap(_)
            unwrap(c) ==
                IF c.k = "element" /\ c.type = REACT_FRAGMENT_TYPE
                   /\ "children" \in DOMAIN c.props
                THEN unwrap(c.props.children) ELSE c
            RECURSIVE concat(_, _)
            concat(items, i) ==
                IF i > Len(items) THEN ""
                ELSE String(items[i]) \o concat(items, i + 1)
            primitive(c) == c.k \in {"string", "number"}
            node == promises[Resolved].value[1]
            tag == input.type.tag
            own == ExpectedPreset(tag) @@ ExpectedStyle(input.props)
                   @@ ExpectedTw(input.props)
        IN /\ Len(promises[Resolved].value) = 1
           /\ "children" \in DOMAIN input.props =>
                LET kids == unwrap(input.props.children) IN
                /\ primitive(kids) =>
                      node = [type |-> "text", text |-> String(kids)] @@ own
                /\ (kids.k = "iterable"
                    /\ \A i \in 1..Len(kids.items) : primitive(kids.items[i])) =>
                      node = [type |-> "text", text |-> concat(kids.items, 1)]
                             @@ own
                /\ (kids.k = "element"
                    \/ (kids.k = "iterable"
                        /\ \E i \in 1..Len(kids.items) :
                              kids.items[i].k = "element")) =>
                      node = [type |-> "container",
                              children |->
                                 promises[PromiseOf(<<"root", "element",
                                                      "children">>)].value]
                             @@ own

\* a sequence of a string and a number inside a fragment, collapsed
C8_Witness ==
    /\ GeneralHost
    /\ Fulfilled(RootPromise)
    /\ "children" \in DOMAIN input.props
    /\ input.props.children.k = "element"
    /\ "style" \in DOMAIN input.props
    /\ promises[RootPromise].value.type = "text"
    /\ promises[RootPromise].value.text = "n = 12"

\* the children of the input are a sequence of strings, numbers and
\* sequences of strings and numbers, with at least one sequence among them
NestedPrimitives ==
    /\ GeneralHost
    /\ "children" \in DOMAIN input.props
    /\ input.props.children.k = "iterable"
    /\ \A i \in 1..Len(input.props.children.items) :
          LET c == input.props.children.items[i] IN
          \/ c.k \in {"string", "number"}
          \/ /\ c.k = "iterable"
             /\ \A j \in 1..Len(c.items) : c.items[j].k \in {"string", "number"}
    /\ \E i \in 1..Len(input.props.children.items) :
          input.props.children.items[i].k = "iterable"

\* C9 as stated: a host element whose children hold a nested sequence of
\* primitives collapses to one Text node
C9_NestedCollapses ==
    (NestedPrimitives /\ Fulfilled(Resolved)) =>
        promises[Resolved].value[1].type = "text"

\* C9: the check is not recursive; a host element whose children hold a
\* nested sequence resolves to a Container with one Text node for each
\* string and number, in order
C9_NestedNotCollapsed ==
    (NestedPrimitives /\ Fulfilled(Resolved)) =>
        LET RECURSIVE leaves(_, _)
            leaves(items, i) ==
                IF i > Len(items) THEN <<>>
                ELSE (IF items[i].k = "iterable" THEN leaves(items[i].items, 1)
                      ELSE <<[type |-> "text", text |-> String(items[i]),
                              preset |-> defaultStylePresets.span]>>)
                     \o leaves(items, i + 1)
            node == promises[Resolved].value[1]
        IN /\ Len(promises[Resolved].value) = 1
           /\ node.type = "container"
           /\ node.children = leaves(input.props.children.items, 1)

C9_Witness ==
    /\ NestedPrimitives
    /\ Fulfilled(RootPromise)
    /\ Len(input.props.children.items) = 2
    /\ Len(promises[RootPromise].value.children) = 3

\* the input is a host element with a void tag
VoidHost ==
    /\ input.k = "element"
    /\ input.type.t = "string"
    /\ input.type.tag \in {"head", "meta", "link", "style", "script"}

\* C10: a void element resolves to the empty sequence and nothing beneath
\* it is resolved: no call is made for its children, no caller's promise is
\* awaited, no error is raised; compiled alone it gives the empty Container
C10_VoidVanishes ==
    (VoidHost /\ called) =>
        /\ errlog = <<>>
        /\ DOMAIN frames \subseteq {<<>>, <<"root">>}
        /\ DOMAIN promises \subseteq
              {RootPromise, Resolved, PromiseOf(<<"root", "element">>)}
              \cup {DeferredPromise(d) : d \in 1..Len(deferredValues)}
        /\ \A d \in 1..Len(deferredValues) :
              promises[DeferredPromise(d)].reactions = <<>>
        /\ Fulfilled(PromiseOf(<<"root", "element">>))
        /\ promises[PromiseOf(<<"root", "element">>)].value = <<>>
        /\ ~Rejected(RootPromise)
        /\ Fulfilled(RootPromise) =>
              promises[RootPromise].value = [type |-> "container"]

\* a script element over an img without src, compiled
C10_Witness ==
    /\ VoidHost
    /\ Fulfilled(RootPromise)
    /\ "children" \in DOMAIN input.props
    /\ input.props.children = Host("img", NoProps)

\* every error raised in the compile is that of an img without src
OnlyMissingSrc ==
    /\ errlog # <<>>
    /\ \A i \in 1..Len(errlog) : errlog[i] = MissingSrc

\* C11: a compile that resolved an img with an absent or empty src rejects
\* with "Image element must have a 'src' prop."; it returns no tree
C11_MissingSrcRejects ==
    (OnlyMissingSrc /\ RootPromise \in DOMAIN promises
     /\ promises[RootPromise].state # "pending") =>
        /\ Rejected(RootPromise)
        /\ promises[RootPromise].value = MissingSrc

RECURSIVE NodesOf(_)
\* the nodes of the tree under node, node included
NodesOf(node) ==
    {node} \cup
    (IF "children" \in DOMAIN node
     THEN UNION {NodesOf(node.children[i]) : i \in 1..Len(node.children)}
     ELSE {})

\* the nodes of the tree fromJsx returned
ReturnedNodes == NodesOf(promises[RootPromise].value)

OneNode(e) ==
    \/ e.k \in {"string", "number"}
    \/ /\ e.k = "element"
       /\ e.type.t = "string"
       /\ e.type.tag \notin {"head", "meta", "link", "style", "script"}

\* the pairs <<element, node>> of the compile: the input when it is a host
\* element with the node it resolved to, and its children with the
\* children of that node when each child resolves to one node
Produced ==
    IF input.k = "element" /\ OneNode(input) /\ Fulfilled(Resolved)
    THEN LET node == promises[Resolved].value[1]
             items == IF "children" \notin DOMAIN input.props THEN <<>>
                      ELSE IF input.props.children.k = "iterable"
                           THEN input.props.children.items
                      ELSE <<input.props.children>>
         IN {<<input, node>>} \cup
            (IF node.type = "container" /\ "children" \in DOMAIN node
                /\ \A i \in 1..Len(items) : OneNode(items[i])
             THEN {<<items[i], node.children[i]>> : i \in 1..Len(items)}
             ELSE {})
    ELSE {}

\* the element of the pair is a host element whose tag has an entry in the
\* table in effect and which carries a style with at least one key
PresetAndStyle(pair) ==
    /\ pair[1].k = "element"
    /\ ExpectedPreset(pair[1].type.tag) # <<>>
    /\ ExpectedStyle(pair[1].props) # <<>>

\* the node of the pair has the entry as preset and the inline map as style
Separate(pair) ==
    /\ "preset" \in DOMAIN pair[2]
    /\ pair[2].preset = EffectiveTable[pair[1].type.tag]
    /\ "style" \in DOMAIN pair[2]
    /\ pair[2].style = pair[1].props.style

\* C13 as stated: the node of every host element with a preset entry and an
\* inline style has the entry as preset and the inline map as style
C13_PresetStyleSeparate ==
    \A pair \in Produced : PresetAndStyle(pair) => Separate(pair)

\* C13: the node of every host element other than br with a preset entry
\* and an inline style has the entry as preset and the inline map as style,
\* neither merged into the other; the Text node of a br has no style
C13_PresetStyleSeparateButBr ==
    \A pair \in Produced :
        PresetAndStyle(pair) =>
            IF pair[1].type.tag = "br" THEN "style" \notin DOMAIN pair[2]
            ELSE Separate(pair)

\* a Text, a Container and an Image node, each with a preset and a style
\* that share a key
C13_Witness ==
    /\ Fulfilled(RootPromise)
    /\ \E pair \in Produced :
          /\ PresetAndStyle(pair) /\ Separate(pair)
          /\ pair[2].type = "container"
          /\ DOMAIN pair[2].preset \cap DOMAIN pair[2].style # {}
    /\ \E pair \in Produced :
          PresetAndStyle(pair) /\ Separate(pair) /\ pair[2].type = "text"
    /\ \E pair \in Produced :
          PresetAndStyle(pair) /\ Separate(pair) /\ pair[2].type = "image"

\* C14: no node of a returned tree carries a style or a preset that is an
\* empty map, or a tw that is the empty string
C14_NoEmptyFields ==
    Fulfilled(RootPromise) =>
        \A n \in ReturnedNodes :
            /\ "style" \in DOMAIN n => DOMAIN n.style # {}
            /\ "preset" \in DOMAIN n => DOMAIN n.preset # {}
            /\ "tw" \in DOMAIN n => n.tw # ""

\* an element with style={} and tw="" whose tag the table maps to {},
\* compiled to a node with none of the three fields
C14_Witness ==
    /\ Fulfilled(RootPromise)
    /\ input.k = "element"
    /\ input.type = Tag("p")
    /\ "style" \in DOMAIN input.props /\ input.props.style = <<>>
    /\ "tw" \in DOMAIN input.props /\ input.props.tw = Str("")
    /\ "defaultStyles" \in DOMAIN options
    /\ options.defaultStyles = Table(CustomPresets)
    /\ promises[RootPromise].value = [type |-> "text", text |-> "Hi"]

\* the preset of a node, as a record with or without the field
PresetOf(n) == IF "preset" \in DOMAIN n THEN [preset |-> n.preset] ELSE <<>>

\* C15: the preset of the node of a host element is the entry of the table
\* in effect for its tag when that entry is not empty and is absent
\* otherwise, whatever the props; the Text node of a string, of a number and
\* of br has the entry for span; with defaultStyles false no node has a preset
C15_PresetAssignment ==
    /\ \A pair \in Produced :
          PresetOf(pair[2]) =
             IF pair[1].k \in {"string", "number"} THEN ExpectedPreset("span")
             ELSE IF pair[1].type.tag = "br" THEN ExpectedPreset("span")
             ELSE ExpectedPreset(pair[1].type.tag)
    /\ (Fulfilled(RootPromise) /\ "defaultStyles" \in DOMAIN options
        /\ options.defaultStyles = False) =>
          \A n \in ReturnedNodes : "preset" \notin DOMAIN n

\* under a caller's table: h1 with the caller's entry, p (mapped to {}) and
\* img (not in the table) without preset, a string and br with the caller's
\* entry for span
C15_Witness ==
    /\ Fulfilled(RootPromise)
    /\ "defaultStyles" \in DOMAIN options
    /\ options.defaultStyles = Table(CustomPresets)
    /\ promises[RootPromise].value.type = "container"
    /\ Len(promises[RootPromise].value.children) = 5
    /\ LET kids == promises[RootPromise].value.children IN
       /\ PresetOf(kids[1]) = [preset |-> CustomPresets.h1]
       /\ PresetOf(kids[2]) = <<>>
       /\ PresetOf(kids[3]) = [preset |-> CustomPresets.span]
       /\ PresetOf(kids[4]) = [preset |-> CustomPresets.span]
       /\ PresetOf(kids[5]) = <<>>

\* the tw of a node, as a record with or without the field
TwOf(n) == IF "tw" \in DOMAIN n THEN [tw |-> n.tw] ELSE <<>>

\* C16 as stated: the tw of the node of every host element is the value of
\* the prop named by tailwindClassesProperty when that is a non-empty
\* string, and is absent otherwise
C16_TwPassThrough ==
    \A pair \in Produced :
        pair[1].k = "element" => TwOf(pair[2]) = ExpectedTw(pair[1].props)

\* C16: so it is for every host element other than br; the Text node of a
\* br, like that of a string or a number, has no tw
C16_TwPassThroughButBr ==
    \A pair \in Produced :
        TwOf(pair[2]) =
           IF pair[1].k \in {"string", "number"} THEN <<>>
           ELSE IF pair[1].type.tag = "br" THEN <<>>
           ELSE ExpectedTw(pair[1].props)

\* className configured, an element with both className and tw: the node
\* has the className string; and an element whose tw is a number
C16_Witness ==
    /\ Fulfilled(RootPromise)
    /\ TwProperty = "className"
    /\ input.k = "element"
    /\ "tw" \in DOMAIN input.props /\ input.props.tw = Str("p-4")
    /\ "className" \in DOMAIN input.props
    /\ promises[RootPromise].value.type = "image"
    /\ TwOf(promises[RootPromise].value) = [tw |-> "m-2"]

\* the children of fan-out f that have been started: the pairs of their
\* index and their element
Started(f) ==
    {i \in 0..(frames[f].index - 1) : PromiseOf(Append(f, NumberToString(i)))
                                         \in DOMAIN promises}

\* element i of the sequence of fan-out f
ElementAt(f, i) == frames[f].iterable[i + 1]

\* the state and value the resolution of child i of fan-out f settled with
Outcome(f, i) ==
    [state |-> promises[ChildPromise(f, i)].state,
     value |-> promises[ChildPromise(f, i)].value]

\* nothing is left to run: the queue is empty and every promise of the
\* caller has settled
Quiescent ==
    /\ called
    /\ microtasks = <<>>
    /\ \A d \in 1..Len(deferredValues) :
          promises[DeferredPromise(d)].state # "pending"

\* the triples <<f, i, j>> of a fan-out and two of its started children,
\* the first of them an element
Siblings ==
    UNION {{<<f, i, j>> : i \in {e \in Started(f) : ElementAt(f, e).k = "element"},
                          j \in Started(f)} : f \in FanOuts}

\* the two children of each of the triples settle alike, and the first has
\* settled when nothing is left to run
SettleAlike(triples) ==
    \A t \in triples :
        /\ (Outcome(t[1], t[2]).state # "pending"
            /\ Outcome(t[1], t[3]).state # "pending")
              => Outcome(t[1], t[2]) = Outcome(t[1], t[3])
        /\ Quiescent => Outcome(t[1], t[2]).state # "pending"

\* e is a function-component element and r is what the function returns for
\* the props of e, or what the promise it returns fulfils with
ReturnsOf(e, r) ==
    /\ e.k = "element"
    /\ e.type.t = "function"
    /\ e.type.body \in {"return", "children"}
    /\ LET returned == IF e.type.body = "return" THEN e.type.e
                       ELSE IF "children" \in DOMAIN e.props
                            THEN e.props.children
                       ELSE Undefined
       IN r = IF returned.k = "promise" THEN deferredValues[returned.id]
              ELSE returned

\* C17: a function-component element resolves as what the function returns
\* for the element's props resolves, also when it returns a promise of it,
\* at any depth and under the same options
C17_FunctionComponents ==
    SettleAlike({t \in Siblings :
                   ReturnsOf(ElementAt(t[1], t[2]), ElementAt(t[1], t[3]))})

\* under a caller's table, beneath a host element: a component that returns
\* an asynchronous component, that component, a component that returns its
\* children prop and the element they all return, resolved to the same node
C17_Witness ==
    /\ Fulfilled(RootPromise)
    /\ input.k = "element"
    /\ "defaultStyles" \in DOMAIN options
    /\ promises[RootPromise].value.type = "container"
    /\ promises[RootPromise].value.children =
          [i \in 1..4 |-> [type |-> "text", text |-> "Inner Title",
                           preset |-> CustomPresets.h1]]

\* e is a fragment and r is its children prop
ChildrenOf(e, r) ==
    /\ e.k = "element"
    /\ e.type = REACT_FRAGMENT_TYPE
    /\ r = IF "children" \in DOMAIN e.props THEN e.props.children ELSE Undefined

RECURSIVE Splice(_, _)
\* the sequence items from position i with each fragment replaced by the
\* members of its children sequence
Splice(items, i) ==
    IF i > Len(items) THEN <<>>
    ELSE (IF items[i].k = "element" /\ items[i].type = REACT_FRAGMENT_TYPE
             /\ "children" \in DOMAIN items[i].props
             /\ items[i].props.children.k = "iterable"
          THEN items[i].props.children.items ELSE <<items[i]>>)
         \o Splice(items, i + 1)

\* e and r are host elements of the same tag with a sequence of children,
\* an element among them; the children of r are those of e with the
\* fragments replaced by their children
SplicedOf(e, r) ==
    /\ e.k = "element" /\ r.k = "element"
    /\ e.type.t = "string" /\ e.type = r.type
    /\ e # r
    /\ "children" \in DOMAIN e.props /\ "children" \in DOMAIN r.props
    /\ e.props.children.k = "iterable" /\ r.props.children.k = "iterable"
    /\ \E i \in 1..Len(r.props.children.items) :
          r.props.children.items[i].k = "element"
    /\ Splice(e.props.children.items, 1) = r.props.children.items

\* C18: a fragment resolves to the resolution of its children and adds no
\* node; in the child list of a host element the nodes of a fragment's
\* children stand at the place of the fragment
C18_FragmentTransparent ==
    /\ SettleAlike({t \in Siblings :
                      ChildrenOf(ElementAt(t[1], t[2]), ElementAt(t[1], t[3]))})
    /\ SettleAlike({t \in Siblings :
                      SplicedOf(ElementAt(t[1], t[2]), ElementAt(t[1], t[3]))})

\* a Container with the two nodes of a fragment before a line break
C18_Witness ==
    /\ Fulfilled(RootPromise)
    /\ input.k = "iterable"
    /\ Len(input.items) = 2
    /\ SplicedOf(input.items[1], input.items[2])
    /\ Len(promises[RootPromise].value.children) = 2
    /\ promises[RootPromise].value.children[1]
          = promises[RootPromise].value.children[2]
    /\ Len(promises[RootPromise].value.children[1].children) = 3
    /\ promises[RootPromise].value.children[1].children[2].text = "b"

\* what the function f returns when called with props
Returned(f, props) ==
    IF f.body = "return" THEN f.e
    ELSE IF "children" \in DOMAIN props THEN props.children
    ELSE Undefined

\* e is a forward-ref element and r what its render returns for the props
\* of e; or e is a memo element of a function and r what the function
\* returns for the props of e; or e is a memo element of something else and
\* r is e with that as its type
UnwrappedOf(e, r) ==
    /\ e.k = "element"
    /\ e.type.t = "object"
    /\ \/ /\ e.type.typeof = "react.forward_ref"
          /\ e.type.render.body \in {"return", "children"}
          /\ r = Returned(e.type.render, e.props)
       \/ /\ e.type.typeof = "react.memo"
          /\ e.type.type.t = "function"
          /\ e.type.type.body \in {"return", "children"}
          /\ r = Returned(e.type.type, e.props)
       \/ /\ e.type.typeof = "react.memo"
          /\ e.type.type.t # "function"
          /\ r = Element(e.type.type, e.props)

\* C19: a forward-ref element resolves as what render(props, null) returns,
\* a memo element of a function as what the function returns for the props,
\* a memo element of anything else as the element with the inner type; the
\* wrapper adds no node
C19_WrapperTransparent ==
    SettleAlike({t \in Siblings :
                   UnwrappedOf(ElementAt(t[1], t[2]), ElementAt(t[1], t[3]))})

\* a memo of a forward-ref, the forward-ref and what its render returns,
\* resolved to three equal nodes
C19_Witness ==
    /\ Fulfilled(RootPromise)
    /\ input.k = "iterable"
    /\ Len(input.items) = 3
    /\ UnwrappedOf(input.items[1], input.items[2])
    /\ UnwrappedOf(input.items[2], input.items[3])
    /\ promises[RootPromise].value.children =
          [i \in 1..3 |-> [type |-> "text", text |-> "bold",
                           preset |-> defaultStylePresets.strong]]

\* the fan-out g is that of a sequence that is a member of the sequence of
\* the fan-out f
NestedIn(g, f) ==
    /\ Len(g) > Len(f)
    /\ SubSeq(g, 1, Len(f)) = f

\* C20: the cap is that of each fan-out: none has more than 8 children in
\* flight, and a fan-out waits at line 401 only when its own inFlight set
\* held 7 tasks before the last was added, whatever is in flight in the
\* fan-outs around it and inside it
C20_CapPerFanOut ==
    \A f \in FanOuts :
        /\ Cardinality(InFlight(f)) <= MAX_CONCURRENT_ITERABLE_RESOLUTION
        /\ \A i \in 1..Len(frames[f].sizes) :
              frames[f].sizes[i] < MAX_CONCURRENT_ITERABLE_RESOLUTION
        /\ frames[f].line = 401 =>
              frames[f].sizes[Len(frames[f].sizes)]
                 = MAX_CONCURRENT_ITERABLE_RESOLUTION - 1

\* 8 children in flight in a sequence and 8 more in a sequence nested in it
C20_Witness ==
    \E f, g \in FanOuts :
        /\ NestedIn(g, f)
        /\ Cardinality(InFlight(g)) = MAX_CONCURRENT_ITERABLE_RESOLUTION
        /\ Cardinality(InFlight(f)) = MAX_CONCURRENT_ITERABLE_RESOLUTION
        /\ frames[f].line = 401
        /\ frames[g].line = 401

RECURSIVE Immediate(_)
\* the resolution of e meets no promise of the caller and no sequence that
\* reaches the cap, whatever the components it calls return
Immediate(e) ==
    CASE e.k \in {"undefined", "null", "false", "string", "number"} -> TRUE
      [] e.k = "promise" -> FALSE
      [] e.k = "iterable" ->
            /\ Len(e.items) < MAX_CONCURRENT_ITERABLE_RESOLUTION
            /\ \A i \in 1..Len(e.items) : Immediate(e.items[i])
      [] e.k = "element" ->
            LET children == IF Has(e.props, "children") THEN e.props.children
                            ELSE Undefined
                returned(f) == IF f.body = "return" THEN f.e
                               ELSE IF f.body = "children" THEN children
                               ELSE Undefined
            IN CASE e.type.t = "function" -> Immediate(returned(e.type))
                 [] e.type.t = "object" /\ isReactForwardRef(e.type) ->
                       Immediate(returned(e.type.render))
                 [] e.type.t = "object" /\ isReactMemo(e.type) ->
                       Immediate([e EXCEPT !.type = e.type.type])
                 [] isHtmlVoidElement(e) \/ isHtmlElement(e, "br")
                       \/ isHtmlElement(e, "img") \/ isHtmlElement(e, "svg") -> TRUE
                 [] OTHER -> Immediate(children)

\* the activation or promise q lies at or beneath the path p
Beneath(p, q) == Len(q) >= Len(p) /\ SubSeq(q, 1, Len(p)) = p

\* the started children of the fan-outs whose resolution is immediate
ImmediateChildren ==
    UNION {{<<f, i>> : i \in {j \in Started(f) : Immediate(ElementAt(f, j))}} :
              f \in FanOuts}

CallOf(path) == CHOOSE n \in 1..Len(invoked) : invoked[n] = path

\* the activation of processReactElement for child i of fan-out f
ElementCall(f, i) == Append(Append(f, NumberToString(i)), "element")

\* C25: a fan-out pulls the members of the sequence in sequence order, the
\* k-th pulled gets index k - 1, its resolution is started before the next
\* is pulled, and sibling function components are called in input order
C25_AdmissionOrder ==
    \A f \in FanOuts :
        /\ Len(frames[f].pulled) = frames[f].index
        /\ frames[f].next = frames[f].index + 1
        /\ \A k \in 1..Len(frames[f].pulled) :
              /\ frames[f].pulled[k].index = k - 1
              /\ frames[f].pulled[k].element = frames[f].iterable[k]
              /\ ChildPromise(f, k - 1) \in DOMAIN promises
        /\ \A i, j \in 0..(frames[f].index - 1) :
              (i < j /\ ElementAt(f, i).k = "element"
                     /\ ElementAt(f, j).k = "element"
                     /\ isFunctionComponent(ElementAt(f, i).type)
                     /\ isFunctionComponent(ElementAt(f, j).type))
              => /\ \E n \in 1..Len(invoked) : invoked[n] = ElementCall(f, i)
                 /\ \E n \in 1..Len(invoked) : invoked[n] = ElementCall(f, j)
                 /\ CallOf(ElementCall(f, i)) < CallOf(ElementCall(f, j))

\* a sequence above the cap of components, the last of them pulled and
\* called after a wait at line 401
C25_Witness ==
    \E f \in FanOuts :
        /\ Len(frames[f].pulled) > MAX_CONCURRENT_ITERABLE_RESOLUTION
        /\ \A k \in 1..Len(frames[f].pulled) :
              /\ frames[f].pulled[k].element.k = "element"
              /\ isFunctionComponent(frames[f].pulled[k].element.type)
        /\ Len(invoked) = Len(frames[f].pulled)
        /\ invoked[Len(invoked)] = ElementCall(f, Len(invoked) - 1)

\* C26: a fan-out that waits at line 401 once the queued jobs have run has
\* 8 children in flight: as soon as one of 8 has fulfilled the loop goes on
\* and pulls the next member, whatever the other 7 do
C26_CreditAdmission ==
    \A f \in FanOuts :
        (microtasks = <<>> /\ frames[f].line = 401)
            => Cardinality(InFlight(f)) = MAX_CONCURRENT_ITERABLE_RESOLUTION

\* the ninth member has been pulled while 7 of the first 8 are in flight
C26_Witness ==
    \E f \in FanOuts :
        /\ frames[f].index > MAX_CONCURRENT_ITERABLE_RESOLUTION
        /\ Cardinality(InFlight(f) \cap 0..(MAX_CONCURRENT_ITERABLE_RESOLUTION - 1))
              = MAX_CONCURRENT_ITERABLE_RESOLUTION - 1
        /\ \E i \in 0..(MAX_CONCURRENT_ITERABLE_RESOLUTION - 1) :
              Fulfilled(ChildPromise(f, i))
        /\ microtasks = <<>>

RECURSIVE NodeCount(_, _)
\* the number of nodes the children of fan-out f from index i on resolved to
NodeCount(f, i) ==
    IF i >= Len(frames[f].iterable) THEN 0
    ELSE Len(promises[ChildPromise(f, i)].value) + NodeCount(f, i + 1)

\* C27: a fan-out that fulfils and none of whose children failed has pulled
\* every member of the sequence, every child has fulfilled, the slot of each
\* index holds that child's nodes, and the result has as many nodes as the
\* children resolved to together
C27_CompleteOnSuccess ==
    \A f \in FanOuts :
        (Fulfilled(frames[f].promise)
         /\ \A i \in Started(f) : ~Rejected(ChildPromise(f, i)))
        => /\ frames[f].index = Len(frames[f].iterable)
           /\ \A i \in 0..(Len(frames[f].iterable) - 1) :
                 /\ Fulfilled(ChildPromise(f, i))
                 /\ i \in DOMAIN frames[f].groupedResults
                 /\ frames[f].groupedResults[i] = promises[ChildPromise(f, i)].value
           /\ DOMAIN frames[f].groupedResults = 0..(Len(frames[f].iterable) - 1)
           /\ Len(promises[frames[f].promise].value) = NodeCount(f, 0)

\* a fulfilled sequence above the cap, 7 of whose children finished during
\* one wait at line 401: the ninth task joined a set of one
C27_Witness ==
    \E f \in FanOuts :
        /\ Fulfilled(frames[f].promise)
        /\ Len(frames[f].sizes) > MAX_CONCURRENT_ITERABLE_RESOLUTION
        /\ frames[f].sizes[MAX_CONCURRENT_ITERABLE_RESOLUTION + 1] = 1
        /\ Len(promises[frames[f].promise].value) = Len(frames[f].iterable)

RECURSIVE Calls(_)
\* the number of component calls the resolution of e makes when nothing
\* fails: one for each function-component, forward-ref and memo-of-function
\* element at a resolved position, those of the values returned and of the
\* values the caller's promises fulfil with included
Calls(e) ==
    CASE e.k \in {"undefined", "null", "false", "string", "number"} -> 0
      [] e.k = "promise" -> Calls(deferredValues[e.id])
      [] e.k = "iterable" ->
            LET RECURSIVE sum(_)
                sum(i) == IF i > Len(e.items) THEN 0
                          ELSE Calls(e.items[i]) + sum(i + 1)
            IN sum(1)
      [] e.k = "element" ->
            LET children == IF Has(e.props, "children") THEN e.props.children
                            ELSE Undefined
                returned(f) == IF f.body = "return" THEN f.e
                               ELSE IF f.body = "children" THEN children
                               ELSE Undefined
            IN CASE e.type.t = "function" -> 1 + Calls(returned(e.type))
                 [] e.type.t = "object" /\ isReactForwardRef(e.type) ->
                       1 + Calls(returned(e.type.render))
                 [] e.type.t = "object" /\ isReactMemo(e.type) ->
                       Calls([e EXCEPT !.type = e.type.type])
                 [] isHtmlVoidElement(e) \/ isHtmlElement(e, "br")
                       \/ isHtmlElement(e, "img") \/ isHtmlElement(e, "svg") -> 0
                 [] OTHER -> Calls(children)

\* C29: no call site calls twice, no more calls are made than the tree has
\* components at resolved positions (none for what lies beneath a void
\* element, an img or an svg, none by the text-collapse check), and a compile
\* in which nothing failed has made exactly that many
C29_CalledOnce ==
    /\ \A m, n \in 1..Len(invoked) : invoked[m] = invoked[n] => m = n
    /\ Len(invoked) <= Calls(input)
    /\ (Fulfilled(RootPromise) /\ errlog = <<>>) => Len(invoked) = Calls(input)

\* a fulfilled compile of two wrappers, one of them a memo of a wrapper that
\* is called through the cloned element, with every call made
C29_Witness ==
    /\ Fulfilled(RootPromise)
    /\ errlog = <<>>
    /\ Len(invoked) = Calls(input)
    /\ Len(invoked) >= 2
    /\ \E n \in 1..Len(invoked) :
          \E k \in 1..Len(invoked[n]) : invoked[n][k] = "cloned"

\* C28: given that the caller's promises settle, fromJsx settles and every
\* fan-out stops waiting; and a fan-out starts a wait at line 401 only with
\* a task in its inFlight set
C28_Terminates ==
    /\ <>(Fulfilled(RootPromise) \/ Rejected(RootPromise))
    /\ <>[](called /\ \A f \in DOMAIN frames : frames[f].line = 0)
    /\ [][\A f \in DOMAIN frames' :
             (/\ frames'[f].fn = "collectIterable"
              /\ frames'[f].line = 401
              /\ \/ f \notin DOMAIN frames
                 \/ frames[f].line # 401
                 \/ frames[f].index # frames'[f].index)
                => frames'[f].inFlight # <<>>]_vars

\* a compile has settled in which a sequence above the cap, nested in
\* another sequence, waited at line 401, and no activation is left
C28_Witness ==
    /\ Fulfilled(RootPromise) \/ Rejected(RootPromise)
    /\ \A f \in DOMAIN frames : frames[f].line = 0
    /\ \E f, g \in FanOuts :
          /\ NestedIn(g, f)
          /\ Len(frames[g].sizes) > MAX_CONCURRENT_ITERABLE_RESOLUTION

\* the promise the second call of fromJsx returns
AgainPromise == PromiseOf(<<"again">>)

\* the activation or promise at path belongs to the second call
Again(path) == path # <<>> /\ path[1] = "again"

\* the step changes an activation or a promise of the first call (again
\* is FALSE) or of the second (again is TRUE); the promises of the caller
\* belong to neither
Changed(again) ==
    \/ \E f \in DOMAIN frames' :
          /\ Again(f) = again
          /\ f \notin DOMAIN frames \/ frames'[f] # frames[f]
    \/ \E p \in DOMAIN promises' :
          /\ Again(p) = again
          /\ p[1] # "deferred"
          /\ \/ p \notin DOMAIN promises
             \/ promises'[p].state # promises[p].state
             \/ Len(promises'[p].reactions) # Len(promises[p].reactions)

C21_RenderAfterCompile ==
    /\ [](\A i \in 1..Len(requests) :
            LET r == requests[i] IN
            /\ r.renders > 0 => r.compile = "fulfilled"
            /\ r.compile = "rejected" =>
                  /\ r.renders = 0
                  /\ r.pc = "done"
                  /\ IF backend = "worker"
                     THEN r.answers = <<[status |-> "error", id |-> r.id]>>
                     ELSE r.stream = "errored")
    /\ [][\A i \in 1..Len(requests) :
             requests'[i].renders > requests[i].renders
                => requests[i].compile = "fulfilled"]_vars

\* of the requests one has been rendered and its stream closed and one
\* has ended in a stream error after its compile rejected
C21_Witness ==
    /\ Len(requests) = MaxRequests
    /\ \E i, j \in 1..Len(requests) :
          /\ requests[i].compile = "rejected"
          /\ requests[i].stream = "errored"
          /\ requests[i].renders = 0
          /\ requests[j].renders = 1
          /\ requests[j].stream = "closed"

\* C23: no Font object is loaded twice into the module-level renderer
C23_LoadedOnce ==
    backend \in {"node", "wasm"} =>
        \A m, n \in 1..Len(renderer.loaded) :
            renderer.loaded[m] = renderer.loaded[n] => m = n

\* C30: the requests the worker accepted have ids of their own; each has
\* at most one render-result posted, with its id, and exactly one when its
\* handler has ended; and whenever the page changes what it displays, the
\* new result has the id of the request sent last
C30_Protocol ==
    /\ [](backend = "worker" =>
            /\ \A i, j \in 1..Len(requests) :
                  requests[i].id = requests[j].id => i = j
            /\ \A i \in 1..Len(requests) :
                  LET r == requests[i] IN
                  /\ Len(r.answers) <= 1
                  /\ \A k \in 1..Len(r.answers) : r.answers[k].id = r.id
                  /\ r.pc = "done" => Len(r.answers) = 1)
    /\ [][page'.rendered # page.rendered
            => page'.rendered.id = page'.currentRequestId]_vars

\* the page shows the result of request 2, the last it sent, and the
\* result of request 1, posted later, is about to arrive
C30_Witness ==
    /\ page.currentRequestId = 2
    /\ page.rendered.id = 2
    /\ toPage # <<>>
    /\ Head(toPage).type = "render-result"
    /\ Head(toPage).id = 1

====
